---- MODULE Spec2Model ----
(***************************************************************************)
(* A model of the staking / validator state machine of the repository.     *)
(*                                                                         *)
(*   chain-core/src/state/validator_spec.rs   ValidatorSet, PunishmentSet, *)
(*                                            ValidatorState               *)
(*   chain-abci/src/validator.rs              ValidatorSet (by power)      *)
(*                                                                         *)
(* Addresses are strings in the code; they are naturals here, and the      *)
(* order of the naturals stands for the byte order of the strings.         *)
(* Option<u64> is a natural or None.                                       *)
(***************************************************************************)
EXTENDS Integers, Sequences, FiniteSets, TLC

(***************************************************************************)
(* #configs                                                                *)
(***************************************************************************)
MINIMAL_REQUIRED_STAKING == 100000000
MAX_VALIDATORS == 10
MAX_EVIDENCE_AGE == 10
SLASH_WAIT_PERIOD == 15
JAIL_DURATION == 18
REWARD_PERIOD == 10
\* the divisor of Validator::voting_power
BaseUnit == 100000000
\* Option::None of an Option<u64>
None == -1

(***************************************************************************)
(* Bounds and input sets of the model.                                     *)
(***************************************************************************)
\* validators that joined before the runs start and are never an input
NumStatic == 9
\* the block time moves TimeStep forward with every block
TimeStep == 8
\* the blocks of a run of Spec
MaxBlocks == 2
\* the blocks of a run of SpecJail
JailBlocks == 4
\* the longest punishments vector of one begin_block
MaxPunish == 2
\* the nibbles of a key of the Merkle tree
KeyNibbles == 2
\* the versions committed in a run of SpecStore
MaxVersions == 2
\* the most stakings of one batch
MaxBatch == 2
GcVersions == 3
\* the blocks of a run of SpecReward
RewardBlocks == 3
\* the blocks of a run of SpecLife
LifeBlocks == 4
\* the blocks of a run of SpecRejoin
RejoinBlocks == 2

\* the validator addresses the calls of a run name
DynVAddrs == {1, 2}
AbciStaking == {1, 2, 3}
AbciVAddrs == {1, 2, 3}
AbciCoins == {BaseUnit, 6 * BaseUnit}
StaticStaking == {10 + i : i \in 1..NumStatic}
StaticVAddr(s) == 100 + s
StaticCoins == 5 * BaseUnit
\* bonded amounts of the calls: below the minimum, the minimum, above the static ones
Coins == {BaseUnit \div 2, BaseUnit, 6 * BaseUnit}
LifeCoins == {BaseUnit \div 2, BaseUnit}
SlashRates == {1, 2}
Reasons == {1, 2}

\* the staking addresses written to the store and the nonces of their
\* accounts; the keys of the tree are those of StoreKeys, of which the last
\* is never written
StoreAddrs == {1, 2, 3}
Nonces == {0, 1}
StoreKeys == StoreAddrs \cup {4}
GcAddrs == {1, 2}

VARIABLES
    set,                          \* the ValidatorSet of chain-abci
    validator,                    \* ValidatorState.validator : ValidatorSet
    validator_snapshot,           \* ValidatorState.validator_snapshot
    reward_stat,                  \* ValidatorState.reward_stat
    punishment,                   \* ValidatorState.punishment : PunishmentSet
    last_reward_distributio_time, \* ValidatorState.last_reward_distributio_time
    rewards_pool,                 \* ChainState.rewards_pool
    aborted,                      \* the process has panicked or crashed
    now,                          \* the block time of the current block
    app,                          \* chain-storage: the App of the storage tests
    log,                          \* the batches committed and the root hashes returned
    call,                         \* the last call of a pure function: its input and output
    driver,                       \* chain-abci pure.rs: the App of the block lifecycle
    ret                           \* the last call and what it returned

vars == <<set, validator, validator_snapshot, reward_stat, punishment,
          last_reward_distributio_time, rewards_pool, aborted, now, app, log, call,
          driver, ret>>

(***************************************************************************)
(* Maps (HashMap, BTreeMap) are functions over their key sets.             *)
(***************************************************************************)
EmptyMap == [x \in {} |-> 0]
MapPut(m, k, v) == [x \in (DOMAIN m) \cup {k} |-> IF x = k THEN v ELSE m[x]]
MapDel(m, k) == [x \in (DOMAIN m) \ {k} |-> m[x]]

(***************************************************************************)
(* Slab: a vector of entries, the vacant ones chained in a free list whose *)
(* head is the entry vacated last.  Keys are 0, 1, 2, ...                  *)
(***************************************************************************)
EmptySlab == [entries |-> EmptyMap, free |-> <<>>]
SlabKey(slab) ==
    IF slab.free # <<>> THEN Head(slab.free) ELSE Cardinality(DOMAIN slab.entries)
SlabInsert(slab, v) ==
    [entries |-> MapPut(slab.entries, SlabKey(slab), v),
     free |-> IF slab.free # <<>> THEN Tail(slab.free) ELSE <<>>]
SlabRemove(slab, oid, vacant) ==
    [entries |-> [slab.entries EXCEPT ![oid] = vacant],
     free |-> <<oid>> \o slab.free]

(***************************************************************************)
(* Validator                                                               *)
(***************************************************************************)
Validator(sa, coins, va, info, inactive) ==
    [staking_address |-> sa, bonded_coins |-> coins, validator_address |-> va,
     council_node_info |-> info, inactive_time |-> inactive]
\* a vacant entry of the slab of validators
VacantValidator == Validator(0, 0, 0, 0, None)
Occupied(e) == e.staking_address # 0

voting_power(v) == v.bonded_coins \div BaseUnit
is_active(v) == v.inactive_time = None

(***************************************************************************)
(* ValidatorSortKey and its Ord                                            *)
(***************************************************************************)
ValidatorSortKey(coins, sa) == <<coins, sa>>
\* cmp(a, b) = Ordering::Less
SortKeyLess(a, b) == a[1] < b[1] \/ (a[1] = b[1] /\ a[2] < b[2])

\* the keys of a BTreeMap in the order its iterator yields them
RECURSIVE BTreeKeys(_)
BTreeKeys(S) ==
    IF S = {} THEN <<>>
    ELSE LET m == CHOOSE x \in S : \A y \in S \ {x} : SortKeyLess(x, y)
         IN <<m>> \o BTreeKeys(S \ {m})

(***************************************************************************)
(* ValidatorSet                                                            *)
(***************************************************************************)
ValidatorSet_new ==
    [heap |-> EmptySlab, idx_staking_address |-> EmptyMap,
     idx_sort_key |-> EmptyMap, idx_validator_address |-> EmptyMap]

\* the oids iter_sorted visits, in order
iter_sorted_oids(vs) ==
    LET ks == BTreeKeys(DOMAIN vs.idx_sort_key)
    IN [i \in 1..Len(ks) |-> vs.idx_sort_key[ks[i]]]

ValidatorSet_remove(vs, oid) ==
    LET v == vs.heap.entries[oid]
    IN [heap |-> SlabRemove(vs.heap, oid, VacantValidator),
        idx_staking_address |-> MapDel(vs.idx_staking_address, v.staking_address),
        idx_validator_address |-> MapDel(vs.idx_validator_address, v.validator_address),
        idx_sort_key |-> MapDel(vs.idx_sort_key,
                                ValidatorSortKey(v.bonded_coins, v.staking_address))]

\* get / get_mut: the row of a staking address is found through its index
ValidatorSet_has(vs, sa) == sa \in DOMAIN vs.idx_staking_address

ValidatorSet_set_bonded_coin(vs, sa, value) ==
    LET oid == vs.idx_staking_address[sa]
    IN [vs EXCEPT !.heap.entries[oid].bonded_coins = value]

\* res is "Ok" or the ValidatorUniqueViolation
ValidatorSet_insert(vs, sa, coins, va, info) ==
    IF sa \in DOMAIN vs.idx_staking_address
    THEN [res |-> "StakingAddress", vs |-> vs]
    ELSE IF va \in DOMAIN vs.idx_validator_address
    THEN [res |-> "ValidatorAddress", vs |-> vs]
    ELSE LET oid == SlabKey(vs.heap)
         IN [res |-> "Ok",
             vs |-> [heap |-> SlabInsert(vs.heap, Validator(sa, coins, va, info, None)),
                     idx_staking_address |-> MapPut(vs.idx_staking_address, sa, oid),
                     idx_sort_key |-> MapPut(vs.idx_sort_key,
                                             ValidatorSortKey(coins, sa), oid),
                     idx_validator_address |-> MapPut(vs.idx_validator_address, va, oid)]]

(***************************************************************************)
(* Punishment and PunishmentSet                                            *)
(***************************************************************************)
Punishment(sa, rate, jail_time, reason, amount) ==
    [staking_address |-> sa, slash_rate |-> rate, jail_time |-> jail_time,
     slash_reason |-> reason, slash_amount |-> amount]
\* a vacant entry of the slab of punishments
VacantPunishment == Punishment(0, 0, 0, 0, None)

PunishmentSet_new == [heap |-> EmptySlab, idx_staking_address |-> EmptyMap]

PunishmentSet_contains(ps, sa) == sa \in DOMAIN ps.idx_staking_address

PunishmentSet_remove(ps, oid) ==
    LET v == ps.heap.entries[oid]
    IN [heap |-> SlabRemove(ps.heap, oid, VacantPunishment),
        idx_staking_address |-> MapDel(ps.idx_staking_address, v.staking_address)]

\* res is "Ok" or the PunishmentUniqueViolation
PunishmentSet_insert(ps, sa, rate, block_time, reason) ==
    IF sa \in DOMAIN ps.idx_staking_address
    THEN [res |-> "StakingAddress", ps |-> ps]
    ELSE [res |-> "Ok",
          ps |-> [heap |-> SlabInsert(ps.heap,
                                      Punishment(sa, rate, block_time, reason, None)),
                  idx_staking_address |->
                      MapPut(ps.idx_staking_address, sa, SlabKey(ps.heap))]]

(***************************************************************************)
(* ValidatorState.  An operation takes the state as a record st and gives  *)
(* the state after it; st.aborted is set where the operation panics.       *)
(***************************************************************************)
ValidatorState_new ==
    [validator |-> ValidatorSet_new,
     validator_snapshot |-> EmptyMap,
     reward_stat |-> EmptyMap,
     punishment |-> PunishmentSet_new,
     last_reward_distributio_time |-> 0,
     rewards_pool |-> 0,
     aborted |-> FALSE]

\* the HashMap iterators of diff_validators yield their entries in an order
\* the hasher's random keys decide: every order of the entries
RECURSIVE HashMapOrders(_)
HashMapOrders(S) ==
    IF S = {} THEN {<<>>}
    ELSE UNION {{<<x>> \o p : p \in HashMapOrders(S \ {x})} : x \in S}

\* #generate-validator-updates: the vectors diff_validators can return
diff_validators(old, new) ==
    LET upd == {<<a, new[a]>> : a \in {b \in DOMAIN new :
                                         b \notin DOMAIN old \/ old[b] # new[b]}}
        rem == {<<a, 0>> : a \in (DOMAIN old) \ (DOMAIN new)}
    IN {p \o q : p \in HashMapOrders(upd), q \in HashMapOrders(rem)}

\* an inactivation that stamps the inactive validators again
set_inactive_time_restamps(st, block_time) ==
    LET e == st.validator.heap.entries
    IN [st EXCEPT !.validator.heap.entries =
           [oid \in DOMAIN e |->
               IF /\ Occupied(e[oid])
                  /\ \/ e[oid].bonded_coins < MINIMAL_REQUIRED_STAKING
                     \/ PunishmentSet_contains(st.punishment, e[oid].staking_address)
               THEN [e[oid] EXCEPT !.inactive_time = block_time]
               ELSE e[oid]]]

\* #set-inactive_time-for-newly-inactive-validators
set_inactive_time(st, block_time) ==
    LET e == st.validator.heap.entries
    IN [st EXCEPT !.validator.heap.entries =
           [oid \in DOMAIN e |->
               IF /\ Occupied(e[oid])
                  /\ e[oid].inactive_time = None
                  /\ \/ e[oid].bonded_coins < MINIMAL_REQUIRED_STAKING
                     \/ PunishmentSet_contains(st.punishment, e[oid].staking_address)
               THEN [e[oid] EXCEPT !.inactive_time = block_time]
               ELSE e[oid]]]

(***************************************************************************)
(* iter_sorted reads the heap with get_unchecked.  For an index entry      *)
(* whose slot is vacant that read is undefined: it yields whatever the     *)
(* slot's bytes read as (the garbage g gives for the oid), or the process  *)
(* crashes.  What gen_validator_update uses of a row is its view.          *)
(***************************************************************************)
View(active, va, power) == [active |-> active, validator_address |-> va, power |-> power]
GarbagePowers == {0, 1}
GarbageViews ==
    {View(FALSE, 0, 0)} \cup {View(TRUE, a, p) : a \in DynVAddrs, p \in GarbagePowers}

get_unchecked(vs, oid, g) ==
    LET v == vs.heap.entries[oid]
    IN IF Occupied(v) THEN View(is_active(v), v.validator_address, voting_power(v))
       ELSE IF oid \in DOMAIN g THEN g[oid]
       ELSE View(FALSE, 0, 0)

\* the index entries of iter_sorted whose slot is vacant
DanglingOids(vs) ==
    {vs.idx_sort_key[k] : k \in DOMAIN vs.idx_sort_key}
        \cap {oid \in DOMAIN vs.heap.entries : ~Occupied(vs.heap.entries[oid])}

\* take(MAX_VALIDATORS) stops the iterator after its last item: a vacant slot
\* is read iff fewer than MAX_VALIDATORS active rows come before the first one
ReadsVacant(vs) ==
    LET oids == iter_sorted_oids(vs)
        dangling == {i \in 1..Len(oids) : ~Occupied(vs.heap.entries[oids[i]])}
    IN /\ dangling # {}
       /\ LET first == CHOOSE i \in dangling : \A j \in dangling : i <= j
          IN Cardinality({j \in 1..(first - 1) : is_active(vs.heap.entries[oids[j]])})
                 < MAX_VALIDATORS

Garbage(vs) == [(IF ReadsVacant(vs) THEN DanglingOids(vs) ELSE {}) -> GarbageViews]

\* collect::<HashMap<_, _>>(): a later pair replaces an earlier one of the same key
CollectHashMap(pairs) ==
    [a \in {pairs[i][1] : i \in 1..Len(pairs)} |->
        LET last == CHOOSE i \in 1..Len(pairs) :
                        /\ pairs[i][1] = a
                        /\ \A j \in 1..Len(pairs) : pairs[j][1] = a => j <= i
        IN pairs[last][2]]

\* the map `new` of gen_validator_update
new_snapshot(vs, g) ==
    LET oids == iter_sorted_oids(vs)
        rows == [i \in 1..Len(oids) |-> get_unchecked(vs, oids[i], g)]
        act == SelectSeq(rows, LAMBDA r : r.active)
        top == SubSeq(act, 1, IF Len(act) < MAX_VALIDATORS THEN Len(act)
                                 ELSE MAX_VALIDATORS)
    IN CollectHashMap([i \in 1..Len(top) |-> <<top[i].validator_address, top[i].power>>])

\* #generate-validator-updates: the state after it; the updates it returns are
\* one of diff_validators(st.validator_snapshot, new_snapshot(st.validator, g))
gen_validator_update(st, g) ==
    [st EXCEPT !.validator_snapshot = new_snapshot(st.validator, g)]

RECURSIVE RemoveOids(_, _)
RemoveOids(vs, oids) ==
    IF oids = {} THEN vs
    ELSE LET oid == CHOOSE x \in oids : \A y \in oids : x <= y
         IN RemoveOids(ValidatorSet_remove(vs, oid), oids \ {oid})

\* a cleanup that removes a validator with blocks counted for a reward
cleanup_ignores_rewards(st, block_time) ==
    LET e == st.validator.heap.entries
        oids == {oid \in DOMAIN e :
                    /\ Occupied(e[oid])
                    /\ e[oid].inactive_time # None
                    /\ block_time > MAX_EVIDENCE_AGE + e[oid].inactive_time
                    /\ ~PunishmentSet_contains(st.punishment, e[oid].staking_address)}
    IN [st EXCEPT !.validator = RemoveOids(st.validator, oids)]

\* #cleanup
cleanup(st, block_time) ==
    LET e == st.validator.heap.entries
        oids == {oid \in DOMAIN e :
                    /\ Occupied(e[oid])
                    /\ e[oid].inactive_time # None
                    /\ block_time > MAX_EVIDENCE_AGE + e[oid].inactive_time
                    /\ e[oid].staking_address \notin DOMAIN st.reward_stat
                    /\ ~PunishmentSet_contains(st.punishment, e[oid].staking_address)}
    IN [st EXCEPT !.validator = RemoveOids(st.validator, oids)]

\* a join_node that lets a punished validator join again
join_node_while_punished(st, sa, coins, va, info) ==
    LET r == ValidatorSet_insert(st.validator, sa, coins, va, info)
    IN IF r.res = "Ok" THEN [st |-> [st EXCEPT !.validator = r.vs], ret |-> TRUE]
       ELSE IF r.res = "StakingAddress"
       THEN LET oid == st.validator.idx_staking_address[sa]
                v == st.validator.heap.entries[oid]
            IN IF v.bonded_coins >= MINIMAL_REQUIRED_STAKING
               THEN IF v.bonded_coins # coins
                    THEN [st |-> [st EXCEPT !.aborted = TRUE], ret |-> FALSE]
                    ELSE [st |-> [st EXCEPT
                                    !.validator.heap.entries[oid].council_node_info = info,
                                    !.validator.heap.entries[oid].validator_address = va,
                                    !.validator.idx_validator_address =
                                        MapPut(@, va, oid)],
                          ret |-> TRUE]
               ELSE [st |-> st, ret |-> FALSE]
       ELSE [st |-> st, ret |-> FALSE]

\* #join-node: the state after it and the boolean it returns
join_node(st, sa, coins, va, info) ==
    LET r == ValidatorSet_insert(st.validator, sa, coins, va, info)
    IN IF r.res = "Ok" THEN [st |-> [st EXCEPT !.validator = r.vs], ret |-> TRUE]
       ELSE IF r.res = "StakingAddress"
       THEN \* re-join
            LET oid == st.validator.idx_staking_address[sa]
                v == st.validator.heap.entries[oid]
            IN IF /\ v.bonded_coins >= MINIMAL_REQUIRED_STAKING
                  /\ ~PunishmentSet_contains(st.punishment, sa)
               THEN IF v.bonded_coins # coins
                    THEN \* assert_eq! panics
                         [st |-> [st EXCEPT !.aborted = TRUE], ret |-> FALSE]
                    ELSE [st |-> [st EXCEPT
                                    !.validator.heap.entries[oid].council_node_info = info,
                                    !.validator.heap.entries[oid].validator_address = va,
                                    !.validator.idx_validator_address =
                                        MapPut(@, va, oid)],
                          ret |-> TRUE]
               ELSE [st |-> st, ret |-> FALSE]
       ELSE [st |-> st, ret |-> FALSE]

\* an unjail that waits for the slash instead of the end of the jail duration
unjail_after_slash_wait(st, sa, block_time) ==
    IF PunishmentSet_contains(st.punishment, sa)
    THEN LET oid == st.punishment.idx_staking_address[sa]
             v == st.punishment.heap.entries[oid]
         IN IF block_time >= v.jail_time + SLASH_WAIT_PERIOD
            THEN [st |-> [st EXCEPT !.punishment = PunishmentSet_remove(@, oid)],
                  ret |-> TRUE]
            ELSE [st |-> st, ret |-> FALSE]
    ELSE [st |-> st, ret |-> FALSE]

\* an unjail that does not wait for the end of the jail duration
unjail_at_once(st, sa, block_time) ==
    IF PunishmentSet_contains(st.punishment, sa)
    THEN [st |-> [st EXCEPT !.punishment =
                      PunishmentSet_remove(@, st.punishment.idx_staking_address[sa])],
          ret |-> TRUE]
    ELSE [st |-> st, ret |-> FALSE]

\* #unjail: the state after it and the boolean it returns
unjail(st, sa, block_time) ==
    IF PunishmentSet_contains(st.punishment, sa)
    THEN LET oid == st.punishment.idx_staking_address[sa]
             v == st.punishment.heap.entries[oid]
         IN IF block_time >= v.jail_time + JAIL_DURATION
            THEN [st |-> [st EXCEPT !.punishment = PunishmentSet_remove(@, oid)],
                  ret |-> TRUE]
            ELSE [st |-> st, ret |-> FALSE]
    ELSE [st |-> st, ret |-> FALSE]

\* a jail that starts the jail time again when the address has a row already
jail_one_resets(ps, block_time, p) ==
    LET r == PunishmentSet_insert(ps, p[1], p[2], block_time, p[3])
    IN IF r.res = "Ok" THEN r.ps
       ELSE LET oid == ps.idx_staking_address[p[1]]
            IN [ps EXCEPT !.heap.entries[oid].jail_time = block_time]

\* one item of the loop of jail
jail_one(ps, block_time, p) ==
    LET r == PunishmentSet_insert(ps, p[1], p[2], block_time, p[3])
    IN IF r.res = "Ok" THEN r.ps
       ELSE \* update punishment
            LET oid == ps.idx_staking_address[p[1]]
                v == ps.heap.entries[oid]
            IN IF v.slash_amount = None /\ p[2] > v.slash_rate
               THEN [ps EXCEPT !.heap.entries[oid].slash_rate = p[2],
                               !.heap.entries[oid].slash_reason = p[3]]
               ELSE ps

RECURSIVE jail_loop(_, _, _)
jail_loop(ps, block_time, punishments) ==
    IF punishments = <<>> THEN ps
    ELSE jail_loop(jail_one(ps, block_time, Head(punishments)), block_time,
                   Tail(punishments))

\* #jail-byzantine-or-non-liveness
jail(st, block_time, punishments) ==
    [st EXCEPT !.punishment = jail_loop(@, block_time, punishments)]

\* mutant: the slash waits for twice the jail duration
slash_waits_longer(st, block_time) ==
    LET e == st.punishment.heap.entries
    IN [st EXCEPT !.punishment.heap.entries =
           [oid \in DOMAIN e |->
               IF /\ e[oid].staking_address # 0
                  /\ e[oid].slash_amount = None
                  /\ block_time >= e[oid].jail_time + 2 * JAIL_DURATION
               THEN [e[oid] EXCEPT !.slash_amount = 1]
               ELSE e[oid]]]

\* a slash that pays the recorded amount to the slashed validator
slash_credits(st, block_time) ==
    LET e == st.punishment.heap.entries
        due == {e[oid].staking_address : oid \in {o \in DOMAIN e :
                    /\ e[o].staking_address # 0
                    /\ e[o].slash_amount = None
                    /\ block_time >= e[o].jail_time + SLASH_WAIT_PERIOD}}
        ve == st.validator.heap.entries
    IN [st EXCEPT !.punishment.heap.entries =
                      [oid \in DOMAIN e |->
                          IF e[oid].staking_address \in due
                          THEN [e[oid] EXCEPT !.slash_amount = 1]
                          ELSE e[oid]],
                  !.validator.heap.entries =
                      [oid \in DOMAIN ve |->
                          IF Occupied(ve[oid]) /\ ve[oid].staking_address \in due
                          THEN [ve[oid] EXCEPT !.bonded_coins = @ + 1]
                          ELSE ve[oid]]]

\* #slash
slash(st, block_time) ==
    LET e == st.punishment.heap.entries
    IN [st EXCEPT !.punishment.heap.entries =
           [oid \in DOMAIN e |->
               IF /\ e[oid].staking_address # 0
                  /\ e[oid].slash_amount = None
                  /\ block_time >= e[oid].jail_time + SLASH_WAIT_PERIOD
               THEN [e[oid] EXCEPT !.slash_amount = 1]
               ELSE e[oid]]]

RECURSIVE SumValues(_)
SumValues(m) ==
    IF DOMAIN m = {} THEN 0
    ELSE LET k == CHOOSE x \in DOMAIN m : TRUE IN m[k] + SumValues(MapDel(m, k))

saturating_sub(a, b) == IF a >= b THEN a - b ELSE 0

\* #reward-distribution
distribute_reward(st, block_time, block_proposer) ==
    LET vs == st.validator
        found == block_proposer \in DOMAIN vs.idx_validator_address
        oid == vs.idx_validator_address[block_proposer]
    IN IF found /\ ~Occupied(vs.heap.entries[oid])
       THEN \* get_by_validator_address indexes a vacant slot: Slab panics
            [st EXCEPT !.aborted = TRUE]
       ELSE
       LET sa == vs.heap.entries[oid].staking_address
           stat == IF ~found THEN st.reward_stat
                   ELSE IF sa \in DOMAIN st.reward_stat
                   THEN [st.reward_stat EXCEPT ![sa] = @ + 1]
                   ELSE MapPut(st.reward_stat, sa, 1)
       IN IF saturating_sub(block_time, st.last_reward_distributio_time) >= REWARD_PERIOD
          THEN IF SumValues(stat) = 0
               THEN \* total_reward / blocks divides by zero
                    [st EXCEPT !.reward_stat = stat,
                               !.last_reward_distributio_time = block_time,
                               !.aborted = TRUE]
               ELSE [st EXCEPT !.reward_stat = EmptyMap,
                               !.last_reward_distributio_time = block_time]
          ELSE [st EXCEPT !.reward_stat = stat]

\* #end_block: the state after it; the updates it returns are those of its
\* gen_validator_update
end_block(st, block_time, g) ==
    cleanup(gen_validator_update(set_inactive_time(st, block_time), g), block_time)

\* #begin_block
begin_block(st, block_time, block_proposer, punishments) ==
    distribute_reward(slash(jail(st, block_time, punishments), block_time),
                      block_time, block_proposer)

(***************************************************************************)
(* The ValidatorSet of chain-abci: a Slab of validators, the index by      *)
(* staking address, the index by validator address and the index by power  *)
(* (a BTreeMap from a power to the Vec of the ids filed under it).  An     *)
(* operation gives the set after it, what it returns and whether it        *)
(* panicked.                                                               *)
(***************************************************************************)
AbciValidator(sa, va, bonded, jailed) ==
    [staking_address |-> sa, validator_address |-> va, bonded |-> bonded,
     jailed |-> jailed]

\* Validator::voting_power: floor(bonded / base unit), zero for a jailed validator
abci_voting_power(v) == IF v.jailed THEN 0 ELSE v.bonded \div BaseUnit

abci_new ==
    [validators |-> EmptySlab, by_staking_address |-> EmptyMap,
     by_validator_address |-> EmptyMap, by_power |-> EmptyMap]

\* Vec::swap_remove: the last element takes the place of the removed one
swap_remove(xs, i) ==
    [j \in 1..(Len(xs) - 1) |-> IF j = i THEN xs[Len(xs)] ELSE xs[j]]

\* found is FALSE where remove_item returns None
remove_item(xs, x) ==
    IF \E i \in 1..Len(xs) : xs[i] = x
    THEN LET i == CHOOSE k \in 1..Len(xs) :
                      xs[k] = x /\ \A j \in 1..(k - 1) : xs[j] # x
         IN [found |-> TRUE, xs |-> swap_remove(xs, i)]
    ELSE [found |-> FALSE, xs |-> xs]

\* an update of the power index that files the id under the new power and
\* leaves it under the old one
update_power_index_keeps_old(index, id, old_power, new_power) ==
    [ok |-> TRUE,
     index |-> IF new_power \in DOMAIN index
               THEN [index EXCEPT ![new_power] = Append(@, id)]
               ELSE MapPut(index, new_power, <<id>>)]

\* ok is FALSE where one of the two unwraps panics
update_power_index(index, id, old_power, new_power) ==
    IF old_power \notin DOMAIN index THEN [ok |-> FALSE, index |-> index]
    ELSE LET r == remove_item(index[old_power], id)
         IN IF ~r.found THEN [ok |-> FALSE, index |-> index]
            ELSE LET removed == [index EXCEPT ![old_power] = r.xs]
                 IN [ok |-> TRUE,
                     index |-> IF new_power \in DOMAIN removed
                               THEN [removed EXCEPT ![new_power] = Append(@, id)]
                               ELSE MapPut(removed, new_power, <<id>>)]

\* insert of a validator that is not jailed; it panics when one of its
\* addresses is in the set already
abci_insert(vs, v) ==
    IF \/ v.validator_address \in DOMAIN vs.by_validator_address
       \/ v.staking_address \in DOMAIN vs.by_staking_address
    THEN [set |-> vs, ret |-> None, panicked |-> TRUE]
    ELSE LET id == SlabKey(vs.validators)
             power == abci_voting_power(v)
         IN [set |-> [validators |-> SlabInsert(vs.validators, v),
                      by_staking_address |->
                          MapPut(vs.by_staking_address, v.staking_address, id),
                      by_validator_address |->
                          MapPut(vs.by_validator_address, v.validator_address, id),
                      by_power |-> IF power \in DOMAIN vs.by_power
                                   THEN [vs.by_power EXCEPT ![power] = Append(@, id)]
                                   ELSE MapPut(vs.by_power, power, <<id>>)],
             ret |-> None, panicked |-> FALSE]

\* the setters change one field of the validator and file it again
abci_set_field(vs, staking, v) ==
    LET id == vs.by_staking_address[staking]
        old == vs.validators.entries[id]
        old_power == abci_voting_power(old)
        r == update_power_index(vs.by_power, id, old_power, abci_voting_power(v))
    IN [set |-> [vs EXCEPT !.validators.entries[id] = v, !.by_power = r.index],
        ret |-> old_power, panicked |-> ~r.ok]

abci_set_jailed(vs, staking, jailed) ==
    IF staking \in DOMAIN vs.by_staking_address
    THEN LET v == vs.validators.entries[vs.by_staking_address[staking]]
         IN IF v.jailed # jailed
            THEN abci_set_field(vs, staking, [v EXCEPT !.jailed = jailed])
            ELSE [set |-> vs, ret |-> abci_voting_power(v), panicked |-> FALSE]
    ELSE [set |-> vs, ret |-> None, panicked |-> FALSE]

abci_set_bonded(vs, staking, bonded) ==
    IF staking \in DOMAIN vs.by_staking_address
    THEN LET v == vs.validators.entries[vs.by_staking_address[staking]]
         IN IF bonded # v.bonded
            THEN abci_set_field(vs, staking, [v EXCEPT !.bonded = bonded])
            ELSE [set |-> vs, ret |-> abci_voting_power(v), panicked |-> FALSE]
    ELSE [set |-> vs, ret |-> None, panicked |-> FALSE]

\* the pairs <<power, id>> in the order of the iterator: the powers from the
\* highest, the ids of a power in the order of its Vec
RECURSIVE sorted_by_power_of(_, _)
sorted_by_power_of(index, powers) ==
    IF powers = {} THEN <<>>
    ELSE LET power == CHOOSE x \in powers : \A y \in powers : y <= x
         IN [i \in 1..Len(index[power]) |-> <<power, index[power][i]>>]
            \o sorted_by_power_of(index, powers \ {power})

sorted_by_power(vs) == sorted_by_power_of(vs.by_power, DOMAIN vs.by_power)

\* FALSE where an assertion or an index of the Slab panics
sanity_check(vs) ==
    LET e == vs.validators.entries
        len == Cardinality(DOMAIN e)
        sorted == sorted_by_power(vs)
    IN /\ len = Cardinality(DOMAIN vs.by_staking_address)
       /\ len = Cardinality(DOMAIN vs.by_validator_address)
       /\ len = Len(sorted)
       /\ \A addr \in DOMAIN vs.by_validator_address :
             /\ vs.by_validator_address[addr] \in DOMAIN e
             /\ addr = e[vs.by_validator_address[addr]].validator_address
       /\ \A addr \in DOMAIN vs.by_staking_address :
             /\ vs.by_staking_address[addr] \in DOMAIN e
             /\ addr = e[vs.by_staking_address[addr]].staking_address
       /\ \A i \in 1..Len(sorted) :
             /\ sorted[i][2] \in DOMAIN e
             /\ sorted[i][1] = abci_voting_power(e[sorted[i][2]])

\* the first n items of a list
Take(seq, n) == SubSeq(seq, 1, IF n < Len(seq) THEN n ELSE Len(seq))

\* iter_candidates: the validators in the order of sorted_by_power whose
\* filed power is at least that of min_stake, max_count of them at most
iter_candidates(vs, min_stake, max_count) ==
    LET min_power == min_stake \div BaseUnit
        HasPower(pv) == pv[1] >= min_power
        kept == SelectSeq(sorted_by_power(vs), HasPower)
    IN [i \in 1..Len(Take(kept, max_count)) |-> vs.validators.entries[kept[i][2]]]

\* ValidatorCandidate::from: the consensus key of the validator (here its
\* validator address, which is derived from it) and its voting power
ValidatorCandidate_from(v) == <<v.validator_address, abci_voting_power(v)>>

candidates(vs, min_stake, max_count) ==
    LET vals == iter_candidates(vs, min_stake, max_count)
    IN [i \in 1..Len(vals) |-> ValidatorCandidate_from(vals[i])]

\* TendermintVotePower::zero
TendermintVotePower_zero == 0

\* diff_candidates: the removed keys of old[from..], in the order of old
removed_candidates(new, old, from) ==
    LET new_map == {new[i][1] : i \in 1..Len(new)}
    IN SelectSeq(SubSeq(old, from, Len(old)), LAMBDA c : c[1] \notin new_map)

\* diff_candidates
diff_candidates(new, old) ==
    LET removed == removed_candidates(new, old, 1)
    IN new \o [i \in 1..Len(removed) |-> <<removed[i][1], TendermintVotePower_zero>>]

\* ValidatorSet::from_iter: the validators are inserted one after the other
RECURSIVE abci_from_iter(_, _)
abci_from_iter(r, vals) ==
    IF vals = <<>> \/ r.panicked THEN r
    ELSE abci_from_iter(abci_insert(r.set, vals[1]), Tail(vals))

\* position of the account of an address; 0 where there is none
position_of(accounts, addr) ==
    IF \E i \in 1..Len(accounts) : accounts[i].address = addr
    THEN CHOOSE i \in 1..Len(accounts) :
             accounts[i].address = addr /\ \A j \in 1..(i - 1) : accounts[j].address # addr
    ELSE 0

\* validators_from_genesis_state: a Validator per council node, made of the
\* node, its address and the `unbonded` of the account of the address;
\* panicked where the expect fails or the insert panics
validators_from_genesis_state(nodes, accounts) ==
    IF \E i \in 1..Len(nodes) : position_of(accounts, nodes[i][1]) = 0
    THEN [set |-> abci_new, ret |-> None, panicked |-> TRUE]
    ELSE abci_from_iter(
             [set |-> abci_new, ret |-> None, panicked |-> FALSE],
             [i \in 1..Len(nodes) |->
                 AbciValidator(nodes[i][1], nodes[i][2].consensus_pubkey,
                               accounts[position_of(accounts, nodes[i][1])].unbonded,
                               FALSE)])

\* App::init_chain of pure.rs: the validators of the genesis state and the
\* candidates returned
pure_init_chain(accounts, nodes, min_stake, max_count) ==
    LET r == validators_from_genesis_state(nodes, accounts)
    IN [ok |-> ~r.panicked,
        validators |-> r.set,
        candidates |-> IF r.panicked THEN <<>>
                       ELSE candidates(r.set, min_stake, max_count)]

\* Option::None of App.state and of App.tx_deliver_state
NoChainState == [header |-> None]
NoDeliverState == [header |-> None]

\* App::new of pure.rs; panicked is set when a call has panicked
PureApp_new == [state |-> NoChainState, tx_deliver_state |-> NoDeliverState, panicked |-> FALSE]

\* Header::from_genesis
Header_from_genesis(app_hash, time) == [app_hash |-> app_hash, time |-> time, height |-> 0]

\* ChainState::iter_candidates
ChainState_iter_candidates(state) ==
    iter_candidates(state.validators, state.network_params.required_council_node_stake,
                    state.network_params.max_validators)

\* TxDeliverState::from_last_state
from_last_state(state) ==
    [header |-> state.header,
     delivered_txs |-> <<>>,
     account_root |-> state.account_root,
     rewards_pool |-> state.rewards_pool,
     validators |-> state.validators]

\* mutant: a second init_chain replaces the state
App_init_chain_again(self, init_state, init_params, genesis_time) ==
    LET accounts == init_state[1]
        account_root == [accounts |-> {accounts[i] : i \in 1..Len(accounts)}]
        app_hash == [tx_root |-> <<>>, account_root |-> account_root,
                     rewards_pool |-> init_state[2], network_params |-> init_params]
        r == validators_from_genesis_state(init_state[3], accounts)
        state == [header |-> Header_from_genesis(app_hash, genesis_time),
                  account_root |-> account_root,
                  rewards_pool |-> init_state[2],
                  network_params |-> init_params,
                  validators |-> r.set]
    IN IF r.panicked
       THEN [self |-> [self EXCEPT !.panicked = TRUE], candidates |-> <<>>]
       ELSE [self |-> [self EXCEPT !.state = state],
             candidates |-> LET vals == ChainState_iter_candidates(state)
                            IN [i \in 1..Len(vals) |-> ValidatorCandidate_from(vals[i])]]
\* App::init_chain of pure.rs; init_state is (accounts, rewards pool, nodes)
App_init_chain(self, init_state, init_params, genesis_time) ==
    LET accounts == init_state[1]
        account_root == [accounts |-> {accounts[i] : i \in 1..Len(accounts)}]
        app_hash == [tx_root |-> <<>>, account_root |-> account_root,
                     rewards_pool |-> init_state[2], network_params |-> init_params]
        r == validators_from_genesis_state(init_state[3], accounts)
        state == [header |-> Header_from_genesis(app_hash, genesis_time),
                  account_root |-> account_root,
                  rewards_pool |-> init_state[2],
                  network_params |-> init_params,
                  validators |-> r.set]
    IN IF self.state # NoChainState \/ r.panicked
       THEN [self |-> [self EXCEPT !.panicked = TRUE], candidates |-> <<>>]
       ELSE [self |-> [self EXCEPT !.state = state],
             candidates |-> LET vals == ChainState_iter_candidates(state)
                            IN [i \in 1..Len(vals) |-> ValidatorCandidate_from(vals[i])]]

\* mutant: the block is begun on the header given and the committed state
\* takes it
App_begin_block_in_place(self, header) ==
    IF self.state = NoChainState
    THEN [self EXCEPT !.panicked = TRUE]
    ELSE [self EXCEPT !.state.header = header,
                      !.tx_deliver_state = from_last_state([self.state EXCEPT !.header = header])]
\* App::begin_block of pure.rs
App_begin_block(self, header) ==
    IF self.state = NoChainState
    THEN [self EXCEPT !.panicked = TRUE]
    ELSE [self EXCEPT !.tx_deliver_state = from_last_state(self.state)]

\* App::end_block and App::commit of pure.rs
App_end_block(self) == self
App_pure_commit(self) == self

(***************************************************************************)
(* chain-storage: the staking accounts in the versioned Merkle tree.       *)
(* A key is a path of KeyNibbles nibbles, a nibble is 0 or 1 and a hash is *)
(* the sequence that spells what was hashed, so that different trees have  *)
(* different hashes.  The tree itself (nodes, put_blob_sets,               *)
(* get_with_proof, the proof and its verification) is the tree of the      *)
(* jellyfish_merkle crate.                                                 *)
(***************************************************************************)
StakedState_default(address) == [address |-> address, nonce |-> 0]
StakedState_encode(staking) == <<staking.address, staking.nonce>>
StakedState_decode(blob) == [address |-> blob[1], nonce |-> blob[2]]

RECURSIVE Pow2(_)
Pow2(n) == IF n = 0 THEN 1 ELSE 2 * Pow2(n - 1)

\* the key of a staking address: the address bytes, padded
to_stake_key(address) ==
    [i \in 1..KeyNibbles |-> ((address - 1) \div Pow2(KeyNibbles - i)) % 2]

NoBlob == <<>>
PlaceholderHash == <<0>>
LeafHash(key, blob) == <<1>> \o key \o blob
InternalHash(left, right) == <<2>> \o left \o right

NoChild == [version |-> None, hash |-> PlaceholderHash, leaf |-> FALSE]
NullNode == [kind |-> "null", key |-> <<>>, blob |-> NoBlob, children |-> <<>>]
LeafNode(key, blob) == [kind |-> "leaf", key |-> key, blob |-> blob, children |-> <<>>]
InternalNode(children) ==
    [kind |-> "internal", key |-> <<>>, blob |-> NoBlob, children |-> children]
NodeHash(node) ==
    CASE node.kind = "null" -> PlaceholderHash
      [] node.kind = "leaf" -> LeafHash(node.key, node.blob)
      [] node.kind = "internal" -> InternalHash(node.children[1].hash, node.children[2].hash)
ChildOf(node, version) ==
    [version |-> version, hash |-> NodeHash(node), leaf |-> node.kind = "leaf"]

\* u64::to_be_bytes and u64::from_be_bytes: the bytes of a version, the most
\* significant first
U64Size == 8
RECURSIVE to_be_bytes(_, _)
to_be_bytes(n, size) ==
    IF size = 0 THEN <<>> ELSE Append(to_be_bytes(n \div 256, size - 1), n % 256)
RECURSIVE from_be_bytes(_)
from_be_bytes(bytes) ==
    IF bytes = <<>> THEN 0
    ELSE from_be_bytes(SubSeq(bytes, 1, Len(bytes) - 1)) * 256 + bytes[Len(bytes)]

\* a node key is <<version, nibble path>>; NodeKey::encode: the version in
\* big endian, the number of nibbles, the nibbles
NodeKey_encode(nk) == to_be_bytes(nk[1], U64Size) \o <<Len(nk[2])>> \o nk[2]
NodeKey_decode(data) ==
    <<from_be_bytes(SubSeq(data, 1, U64Size)),
      SubSeq(data, U64Size + 2, U64Size + 1 + data[U64Size + 1])>>

COL_TRIE_NODE == "trie_node"
COL_TRIE_STALED == "trie_staled"

\* Get of BufferStore: the write buffer first, then the committed store
BufferStore_get(storage, kv_buffer, k) ==
    IF k \in DOMAIN kv_buffer THEN kv_buffer[k]
    ELSE IF k \in DOMAIN storage THEN storage[k]
    ELSE NoBlob

\* KVReader::get_node_option over a store view (a map of the keys to the bytes)
KVReader_has_node(view, nk) == <<COL_TRIE_NODE, NodeKey_encode(nk)>> \in DOMAIN view
KVReader_get_node_option(view, nk) == view[<<COL_TRIE_NODE, NodeKey_encode(nk)>>]

RECURSIVE CommonPrefixLen(_, _)
CommonPrefixLen(k1, k2) ==
    IF k1 = <<>> \/ k2 = <<>> \/ Head(k1) # Head(k2) THEN 0
    ELSE 1 + CommonPrefixLen(Tail(k1), Tail(k2))

(***************************************************************************)
(* put_blob_sets works in a cache over the store view: the nodes it makes  *)
(* for the new version, the node keys it makes stale and the key of the    *)
(* root.  Before version 0 the root is a null node of no stored version.   *)
(***************************************************************************)
TreeCache_new(next_version) ==
    [nodes |-> EmptyMap, stale |-> {},
     root |-> IF next_version = 0 THEN <<None, <<>>>> ELSE <<next_version - 1, <<>>>>]

TreeCache_get_node(cache, view, nk) ==
    IF nk \in DOMAIN cache.nodes THEN cache.nodes[nk]
    ELSE IF nk[1] = None THEN NullNode
    ELSE KVReader_get_node_option(view, nk)

TreeCache_put_node(cache, nk, node) == [cache EXCEPT !.nodes = MapPut(@, nk, node)]

\* a node made for this version is dropped, a stored one becomes stale
TreeCache_delete_node(cache, nk) ==
    IF nk \in DOMAIN cache.nodes THEN [cache EXCEPT !.nodes = MapDel(@, nk)]
    ELSE IF nk[1] = None THEN cache
    ELSE [cache EXCEPT !.stale = @ \cup {nk}]

\* the internal nodes of one child each, from depth j up to depth d, over the
\* node `child` describes
RECURSIVE chain_up(_, _, _, _, _, _)
chain_up(cache, key, j, d, child, version) ==
    IF j < d THEN [cache |-> cache, child |-> child]
    ELSE LET node == InternalNode([n \in 1..2 |-> IF n = key[j + 1] + 1 THEN child
                                                  ELSE NoChild])
         IN chain_up(TreeCache_put_node(cache, <<version, SubSeq(key, 1, j)>>, node),
                     key, j - 1, d, ChildOf(node, version), version)

\* a leaf of another key is found at depth d: both leaves go under the
\* internal node of their common prefix
split_leaf(cache, existing, d, key, blob, version) ==
    LET cpl == CommonPrefixLen(key, existing.key)
        new_leaf == LeafNode(key, blob)
        c1 == TreeCache_put_node(cache, <<version, SubSeq(key, 1, cpl + 1)>>, new_leaf)
        c2 == TreeCache_put_node(c1, <<version, SubSeq(existing.key, 1, cpl + 1)>>,
                                 existing)
        node == InternalNode([n \in 1..2 |->
                                 IF n = key[cpl + 1] + 1 THEN ChildOf(new_leaf, version)
                                 ELSE ChildOf(existing, version)])
        c3 == TreeCache_put_node(c2, <<version, SubSeq(key, 1, cpl)>>, node)
    IN chain_up(c3, key, cpl - 1, d, ChildOf(node, version), version)

\* insert_at: the subtree under the node of key nk gets the blob; the result
\* is the cache and the child that describes the new node in its place
RECURSIVE insert_at(_, _, _, _, _, _)
insert_at(cache, view, nk, key, blob, version) ==
    LET node == TreeCache_get_node(cache, view, nk)
        path == nk[2]
        c0 == TreeCache_delete_node(cache, nk)
        put_leaf(c, p) ==
            [cache |-> TreeCache_put_node(c, <<version, p>>, LeafNode(key, blob)),
             child |-> ChildOf(LeafNode(key, blob), version)]
    IN CASE node.kind = "null" -> put_leaf(c0, <<>>)
         [] node.kind = "leaf" ->
                IF node.key = key THEN put_leaf(c0, path)
                ELSE split_leaf(c0, node, Len(path), key, blob, version)
         [] node.kind = "internal" ->
                LET nibble == key[Len(path) + 1]
                    old == node.children[nibble + 1]
                    r == IF old.version = None
                         THEN put_leaf(c0, path \o <<nibble>>)
                         ELSE insert_at(c0, view, <<old.version, path \o <<nibble>>>>,
                                        key, blob, version)
                    new_node == InternalNode([node.children EXCEPT ![nibble + 1] = r.child])
                IN [cache |-> TreeCache_put_node(r.cache, <<version, path>>, new_node),
                    child |-> ChildOf(new_node, version)]

put(cache, view, key, blob, version) ==
    [insert_at(cache, view, cache.root, key, blob, version).cache
        EXCEPT !.root = <<version, <<>>>>]

RECURSIVE put_all(_, _, _, _)
put_all(cache, view, blob_set, version) ==
    IF blob_set = <<>> THEN cache
    ELSE put_all(put(cache, view, Head(blob_set)[1], Head(blob_set)[2], version),
                 view, Tail(blob_set), version)

\* JellyfishMerkleTree::put_blob_sets of one blob set: the root hash, the node
\* batch and the stale node index batch
put_blob_sets(view, blob_set, version) ==
    LET cache == put_all(TreeCache_new(version), view, blob_set, version)
    IN [root_hash |-> NodeHash(cache.nodes[cache.root]),
        node_batch |-> cache.nodes,
        stale_node_index_batch |->
            {[stale_since_version |-> version, node_key |-> nk] : nk \in cache.stale}]

(***************************************************************************)
(* get_with_proof walks from the root of the version to the leaf or to the *)
(* empty place of the key and collects the siblings, the lowest first.     *)
(***************************************************************************)
NoLeaf == [present |-> FALSE, key |-> <<>>, blob |-> NoBlob]
ProofLeaf(key, blob) == [present |-> TRUE, key |-> key, blob |-> blob]

RECURSIVE get_with_proof_at(_, _, _, _)
get_with_proof_at(view, nk, key, siblings) ==
    IF ~KVReader_has_node(view, nk)
    THEN [ok |-> FALSE, value |-> NoBlob, proof |-> [leaf |-> NoLeaf, siblings |-> <<>>]]
    ELSE LET node == KVReader_get_node_option(view, nk)
         IN CASE node.kind = "null" ->
                    [ok |-> TRUE, value |-> NoBlob,
                     proof |-> [leaf |-> NoLeaf, siblings |-> siblings]]
              [] node.kind = "leaf" ->
                    [ok |-> TRUE,
                     value |-> IF node.key = key THEN node.blob ELSE NoBlob,
                     proof |-> [leaf |-> ProofLeaf(node.key, node.blob),
                                siblings |-> siblings]]
              [] node.kind = "internal" ->
                    LET nibble == key[Len(nk[2]) + 1]
                        child == node.children[nibble + 1]
                        sibs == <<node.children[2 - nibble].hash>> \o siblings
                    IN IF child.version = None
                       THEN [ok |-> TRUE, value |-> NoBlob,
                             proof |-> [leaf |-> NoLeaf, siblings |-> sibs]]
                       ELSE get_with_proof_at(view, <<child.version, nk[2] \o <<nibble>>>>,
                                              key, sibs)

\* JellyfishMerkleTree::get_with_proof; ok is false for its error (a node is
\* missing)
get_with_proof(view, key, version) == get_with_proof_at(view, <<version, <<>>>>, key, <<>>)

\* the hash of the root the proof leads to
RECURSIVE proof_root(_, _, _)
proof_root(hash, siblings, key) ==
    IF siblings = <<>> THEN hash
    ELSE proof_root(IF key[Len(siblings)] = 0 THEN InternalHash(hash, Head(siblings))
                    ELSE InternalHash(Head(siblings), hash),
                    Tail(siblings), key)

\* SparseMerkleProof::verify: of the inclusion of the value, or of the
\* exclusion of the key when the value is NoBlob
verify(proof, expected_root_hash, key, value) ==
    /\ Len(proof.siblings) <= KeyNibbles
    /\ IF value # NoBlob
       THEN /\ proof.leaf.present
            /\ proof.leaf.key = key
            /\ proof.leaf.blob = value
       ELSE proof.leaf.present =>
                /\ proof.leaf.key # key
                /\ CommonPrefixLen(key, proof.leaf.key) >= Len(proof.siblings)
    /\ proof_root(IF proof.leaf.present THEN LeafHash(proof.leaf.key, proof.leaf.blob)
                  ELSE PlaceholderHash,
                  proof.siblings, key) = expected_root_hash

(***************************************************************************)
(* StakingGetter, flush_stakings and the App of the storage tests.         *)
(***************************************************************************)
NoStaking == [address |-> 0, nonce |-> None]
HashValue_zero == <<>>

\* the committed store under the write buffer, as BufferStore reads it
BufferStore_view(storage, kv_buffer) ==
    [k \in (DOMAIN storage) \cup (DOMAIN kv_buffer) |->
        BufferStore_get(storage, kv_buffer, k)]

\* a StakingGetter that reads the version before the one it is given
StakingGetter_get_before(storage, version, address) ==
    LET r == get_with_proof(storage, to_stake_key(address),
                            IF version = 0 THEN 0 ELSE version - 1)
    IN [panicked |-> ~r.ok,
        value |-> IF r.ok /\ r.value # NoBlob THEN StakedState_decode(r.value)
                  ELSE NoStaking]

\* StakingGetter::get at a version; panicked: the expect of the tree's error
StakingGetter_get(storage, version, address) ==
    LET r == get_with_proof(storage, to_stake_key(address), version)
    IN [panicked |-> ~r.ok,
        value |-> IF r.ok /\ r.value # NoBlob THEN StakedState_decode(r.value)
                  ELSE NoStaking]

\* mutant: the version is cut to its lowest byte before it is encoded
encode_stale_node_index_u8(index) ==
    to_be_bytes(index.stale_since_version % 256, U64Size)
        \o NodeKey_encode(index.node_key)
encode_stale_node_index(index) ==
    to_be_bytes(index.stale_since_version, U64Size) \o NodeKey_encode(index.node_key)

decode_stale_node_index(data) ==
    LET version_size == U64Size
    IN [stale_since_version |-> from_be_bytes(SubSeq(data, 1, version_size)),
        node_key |-> NodeKey_decode(SubSeq(data, version_size + 1, Len(data)))]

\* the order of byte strings, as kvdb and the slices of Rust order them:
\* -1, 0 or 1 as a is less than, equal to or greater than b
RECURSIVE bytes_cmp(_, _)
bytes_cmp(a, b) ==
    IF a = <<>> THEN (IF b = <<>> THEN 0 ELSE -1)
    ELSE IF b = <<>> THEN 1
    ELSE IF a[1] < b[1] THEN -1
    ELSE IF a[1] > b[1] THEN 1
    ELSE bytes_cmp(Tail(a), Tail(b))

starts_with(key, prefix) ==
    /\ Len(key) >= Len(prefix)
    /\ SubSeq(key, 1, Len(prefix)) = prefix

\* the byte strings of a set, in their order
RECURSIVE SortedKeys(_)
SortedKeys(keys) ==
    IF keys = {} THEN <<>>
    ELSE LET first == CHOOSE x \in keys : \A y \in keys : bytes_cmp(x, y) <= 0
         IN <<first>> \o SortedKeys(keys \ {first})

\* KeyValueDB::iter_from_prefix of kvdb: the keys of the column that start
\* with the prefix, in their order
iter_from_prefix(storage, col, prefix) ==
    SortedKeys({k[2] : k \in {x \in DOMAIN storage :
                                 x[1] = col /\ starts_with(x[2], prefix)}})

\* mutant: the iteration starts at the prefix and runs to the end of the
\* column
collect_stale_node_indices_from(storage, stale_since) ==
    LET prefix == to_be_bytes(stale_since, U64Size)
        keys == SortedKeys({k[2] : k \in {x \in DOMAIN storage :
                                              /\ x[1] = COL_TRIE_STALED
                                              /\ bytes_cmp(x[2], prefix) >= 0}})
    IN [i \in 1..Len(keys) |-> decode_stale_node_index(keys[i])]
collect_stale_node_indices(storage, stale_since) ==
    LET keys == iter_from_prefix(storage, COL_TRIE_STALED,
                                 to_be_bytes(stale_since, U64Size))
    IN [i \in 1..Len(keys) |-> decode_stale_node_index(keys[i])]

\* the stale indices collected are deleted together with the nodes they
\* reference
prune(storage, indices) ==
    LET gone == {<<COL_TRIE_STALED, encode_stale_node_index(indices[i])>> :
                    i \in 1..Len(indices)}
                \cup {<<COL_TRIE_NODE, NodeKey_encode(indices[i].node_key)>> :
                         i \in 1..Len(indices)}
    IN [k \in (DOMAIN storage) \ gone |-> storage[k]]

\* the node keys of the tree under a node key, that node included
RECURSIVE TreeNodes(_, _)
TreeNodes(storage, nk) ==
    IF ~KVReader_has_node(storage, nk) THEN {nk}
    ELSE LET node == KVReader_get_node_option(storage, nk)
         IN {nk} \cup
            (IF node.kind = "internal"
             THEN UNION {IF node.children[n + 1].version = None THEN {}
                         ELSE TreeNodes(storage, <<node.children[n + 1].version,
                                                   nk[2] \o <<n>>>>) : n \in {0, 1}}
             ELSE {})

\* the key and the blob of each staking of the buffer, in the order `order`
\* of its values
blob_set_of(buffer, order) ==
    [i \in 1..Len(order) |->
        <<to_stake_key(buffer[order[i]].address), StakedState_encode(buffer[order[i]])>>]

\* a flush_stakings that puts the first staking of the buffer only
flush_stakings_first_only(storage, kv_buffer, version, buffer, order) ==
    LET r == put_blob_sets(BufferStore_view(storage, kv_buffer),
                           SubSeq(blob_set_of(buffer, order), 1, 1), version)
        node_keys == {<<COL_TRIE_NODE, NodeKey_encode(nk)>> : nk \in DOMAIN r.node_batch}
        stale_keys == {<<COL_TRIE_STALED, encode_stale_node_index(x)>> :
                          x \in r.stale_node_index_batch}
    IN [root_hash |-> r.root_hash,
        kv_buffer |->
            [k \in (DOMAIN kv_buffer) \cup node_keys \cup stale_keys |->
                IF k \in node_keys THEN r.node_batch[NodeKey_decode(k[2])]
                ELSE IF k \in stale_keys THEN <<>>
                ELSE kv_buffer[k]]]

\* flush_stakings: the nodes and the stale node indices are set in the store
\* (the write buffer of the BufferStore)
flush_stakings(storage, kv_buffer, version, buffer, order) ==
    LET r == put_blob_sets(BufferStore_view(storage, kv_buffer),
                           blob_set_of(buffer, order), version)
        node_keys == {<<COL_TRIE_NODE, NodeKey_encode(nk)>> : nk \in DOMAIN r.node_batch}
        stale_keys == {<<COL_TRIE_STALED, encode_stale_node_index(x)>> :
                          x \in r.stale_node_index_batch}
    IN [root_hash |-> r.root_hash,
        kv_buffer |->
            [k \in (DOMAIN kv_buffer) \cup node_keys \cup stale_keys |->
                IF k \in node_keys THEN r.node_batch[NodeKey_decode(k[2])]
                ELSE IF k \in stale_keys THEN <<>>
                ELSE kv_buffer[k]]]

App_new ==
    [storage |-> EmptyMap, kv_buffer |-> EmptyMap, staking_buffer |-> EmptyMap,
     version |-> 0, root_hash |-> HashValue_zero]

\* App::staking_store().set_staking: the staking goes to the staking buffer
App_set_staking(a, staking) ==
    [a EXCEPT !.staking_buffer = MapPut(@, staking.address, staking)]

\* a commit that does not move to the next version
App_commit_same_version(a, order) ==
    LET r == flush_stakings(a.storage, a.kv_buffer, a.version, a.staking_buffer, order)
    IN [storage |-> BufferStore_view(a.storage, r.kv_buffer),
        kv_buffer |-> EmptyMap,
        staking_buffer |-> EmptyMap,
        version |-> a.version,
        root_hash |-> r.root_hash]

\* App::commit: flush_stakings at the version, flush_kvdb, the next version
App_commit(a, order) ==
    LET r == flush_stakings(a.storage, a.kv_buffer, a.version, a.staking_buffer, order)
    IN [storage |-> BufferStore_view(a.storage, r.kv_buffer),
        kv_buffer |-> EmptyMap,
        staking_buffer |-> EmptyMap,
        version |-> a.version + 1,
        root_hash |-> r.root_hash]

\* mutant: flush_stakings on the storage itself, without the write buffer
App_flush_stakings_unbuffered(a, order) ==
    LET r == flush_stakings(a.storage, a.kv_buffer, a.version, a.staking_buffer, order)
    IN [a EXCEPT !.storage = BufferStore_view(a.storage, r.kv_buffer),
                 !.staking_buffer = EmptyMap,
                 !.root_hash = r.root_hash]
\* the first statement of App::commit: App::flush_stakings on the BufferStore
\* of the storage and the write buffer, of the staking buffer taken
App_flush_stakings(a, order) ==
    LET r == flush_stakings(a.storage, a.kv_buffer, a.version, a.staking_buffer, order)
    IN [a EXCEPT !.kv_buffer = r.kv_buffer,
                 !.staking_buffer = EmptyMap,
                 !.root_hash = r.root_hash]

\* the second statement of App::commit: App::flush_kvdb, the write buffer
\* taken and written to the storage in one batch
App_flush_kvdb(a) ==
    [a EXCEPT !.storage = BufferStore_view(a.storage, a.kv_buffer),
              !.kv_buffer = EmptyMap]

\* the third statement of App::commit
App_next_version(a) == [a EXCEPT !.version = a.version + 1]

\* what the tests keep beside the App: the batches committed, the root hash
\* each commit returned, what the last read returned, the watermarks pruned
\* and the statement of App::commit that comes next
NoCall == [fn |-> "none", from |-> <<>>, in |-> <<>>, out |-> <<>>]
Log_new == [stakings |-> <<>>, root_hashes |-> <<>>, got |-> NoStaking, pruned |-> {},
            pc |-> "idle"]

(***************************************************************************)
(* The state machine of ValidatorState.                                    *)
(***************************************************************************)
Self ==
    [validator |-> validator,
     validator_snapshot |-> validator_snapshot,
     reward_stat |-> reward_stat,
     punishment |-> punishment,
     last_reward_distributio_time |-> last_reward_distributio_time,
     rewards_pool |-> rewards_pool,
     aborted |-> aborted]

Becomes(st) ==
    /\ validator' = st.validator
    /\ validator_snapshot' = st.validator_snapshot
    /\ reward_stat' = st.reward_stat
    /\ punishment' = st.punishment
    /\ last_reward_distributio_time' = st.last_reward_distributio_time
    /\ rewards_pool' = st.rewards_pool
    /\ aborted' = st.aborted

\* the last call: its name, the staking address it was given (0: none), whether it
\* returned (for join_node and unjail: what it returned), the updates of an
\* end_block, the staking addresses a begin_block was given to punish, the
\* power a setter of the chain-abci ValidatorSet returned (None: none) and the
\* other arguments of the call (begin_block: the block proposer; join_node: the
\* bonded coins, the validator address and the council node info;
\* set_bonded_coin: the value)
Ret(op, addr, ok, updates, jailed, power, args) ==
    [op |-> op, addr |-> addr, ok |-> ok, updates |-> updates, jailed |-> jailed,
     power |-> power, args |-> args]

\* the static validators have joined, in the order of their addresses
RECURSIVE JoinStatics(_, _)
JoinStatics(st, addrs) ==
    IF addrs = {} THEN st
    ELSE LET sa == CHOOSE x \in addrs : \A y \in addrs : x <= y
         IN JoinStatics(join_node(st, sa, StaticCoins, StaticVAddr(sa), 1).st,
                        addrs \ {sa})

\* the state after the static validators joined and the block of time 0 ended
Genesis == end_block(JoinStatics(ValidatorState_new, StaticStaking), 0, EmptyMap)

Init ==
    /\ validator = Genesis.validator
    /\ validator_snapshot = Genesis.validator_snapshot
    /\ reward_stat = Genesis.reward_stat
    /\ punishment = Genesis.punishment
    /\ last_reward_distributio_time = Genesis.last_reward_distributio_time
    /\ rewards_pool = Genesis.rewards_pool
    /\ aborted = Genesis.aborted
    /\ now = 0
    /\ set = abci_new
    /\ app = App_new
    /\ log = Log_new
    /\ call = NoCall
    /\ driver = PureApp_new
    /\ ret = Ret("end_block", 0, TRUE, <<>>, {}, None, <<>>)

\* the punishments vectors of at most MaxPunish items over the given inputs
PunishmentVecs(addrs, rates, reasons) ==
    UNION {[1..n -> addrs \X rates \X reasons] : n \in 0..MaxPunish}

\* begin_block of the next block: the block time moves one step forward
BeginBlock(blocks, proposers, vecs) ==
    /\ ~aborted
    /\ now + TimeStep <= TimeStep * blocks
    /\ now' = now + TimeStep
    /\ UNCHANGED <<set, app, log, call, driver>>
    /\ \E proposer \in proposers, punishments \in vecs :
          LET st == begin_block(Self, now', proposer, punishments)
          IN /\ Becomes(st)
             /\ ret' = Ret("begin_block", 0, ~st.aborted, <<>>,
                           {punishments[i][1] : i \in 1..Len(punishments)}, None,
                           <<proposer>>)

JoinNode(addrs, coins, vaddrs, infos) ==
    /\ ~aborted
    /\ \E sa \in addrs, c \in coins, va \in vaddrs, info \in infos :
          LET r == join_node(Self, sa, c, va, info)
          IN /\ Becomes(r.st)
             /\ ret' = Ret("join_node", sa, r.ret, <<>>, {}, None, <<c, va, info>>)
    /\ UNCHANGED <<now, set, app, log, call, driver>>

Unjail(addrs) ==
    /\ ~aborted
    /\ \E sa \in addrs :
          LET r == unjail(Self, sa, now)
          IN /\ Becomes(r.st)
             /\ ret' = Ret("unjail", sa, r.ret, <<>>, {}, None, <<>>)
    /\ UNCHANGED <<now, set, app, log, call, driver>>

\* ValidatorSet::set_bonded_coin on the validator table; its unwrap panics
\* when the staking address has no row
SetBondedCoin(addrs, coins) ==
    /\ ~aborted
    /\ \E sa \in addrs, value \in coins :
          IF ValidatorSet_has(validator, sa)
          THEN /\ Becomes([Self EXCEPT !.validator =
                                ValidatorSet_set_bonded_coin(@, sa, value)])
               /\ ret' = Ret("set_bonded_coin", sa, TRUE, <<>>, {}, None, <<value>>)
          ELSE /\ Becomes([Self EXCEPT !.aborted = TRUE])
               /\ ret' = Ret("set_bonded_coin", sa, FALSE, <<>>, {}, None, <<value>>)
    /\ UNCHANGED <<now, set, app, log, call, driver>>

\* end_block returns: its updates are one of the vectors diff_validators can give
EndBlockReturns ==
    /\ ~aborted
    /\ LET st1 == set_inactive_time(Self, now)
       IN \E g \in Garbage(st1.validator) :
             \E updates \in diff_validators(st1.validator_snapshot,
                                            new_snapshot(st1.validator, g)) :
                 /\ Becomes(end_block(Self, now, g))
                 /\ ret' = Ret("end_block", 0, TRUE, updates, {}, None, <<>>)
    /\ UNCHANGED <<now, set, app, log, call, driver>>

\* end_block crashes in the read of a vacant slot
EndBlockCrashes ==
    /\ ~aborted
    /\ LET st1 == set_inactive_time(Self, now)
       IN /\ ReadsVacant(st1.validator)
          /\ Becomes([st1 EXCEPT !.aborted = TRUE])
          /\ ret' = Ret("end_block", 0, FALSE, <<>>, {}, None, <<>>)
    /\ UNCHANGED <<now, set, app, log, call, driver>>

(***************************************************************************)
(* Spec: the validator table and the snapshot.  Beside the static          *)
(* validators, validator 1 joins, re-joins under either validator address, *)
(* changes its bond and is cleaned up, and validator 2 joins with the      *)
(* minimal stake under validator address 2.  The blocks are proposed by a  *)
(* static validator and punish nobody.                                     *)
(***************************************************************************)
Next ==
    \/ BeginBlock(MaxBlocks, {StaticVAddr(11)}, {<<>>})
    \/ JoinNode({1}, Coins, DynVAddrs, {1})
    \/ JoinNode({2}, {BaseUnit}, {2}, {1})
    \/ SetBondedCoin({1}, Coins)
    \/ EndBlockReturns
    \/ EndBlockCrashes

Spec == Init /\ [][Next]_vars

(***************************************************************************)
(* SpecJail: jailing, slashing and unjailing.  Validator 1 joins with the  *)
(* minimal stake and is punished; the blocks are proposed by a static      *)
(* validator.                                                              *)
(***************************************************************************)
NextJail ==
    \/ BeginBlock(JailBlocks, {StaticVAddr(11)}, PunishmentVecs({1}, SlashRates, Reasons))
    \/ JoinNode({1}, {BaseUnit}, DynVAddrs, {1})
    \/ Unjail({1})
    \/ EndBlockReturns

SpecJail == Init /\ [][NextJail]_vars

(***************************************************************************)
(* SpecReward: the accrual and the distribution of the rewards.  The       *)
(* blocks are proposed by a static validator or under one of the validator *)
(* addresses validator 1 joins and re-joins with.                          *)
(***************************************************************************)
NextReward ==
    \/ BeginBlock(RewardBlocks, {StaticVAddr(11)} \cup DynVAddrs, {<<>>})
    \/ JoinNode({1}, {BaseUnit}, DynVAddrs, {1})
    \/ EndBlockReturns

SpecReward == Init /\ [][NextReward]_vars

(***************************************************************************)
(* SpecLife: the life of validator 1 from its join to its cleanup: its     *)
(* bond falls below the minimal stake or comes back, it is jailed,         *)
(* unjailed and re-joins, it proposes blocks, and the blocks end.          *)
(***************************************************************************)
NextLife ==
    \/ BeginBlock(LifeBlocks, {StaticVAddr(11), 1}, {<<>>, <<<<1, 1, 1>>>>})
    \/ JoinNode({1}, LifeCoins, {1}, {1, 2})
    \/ SetBondedCoin({1}, LifeCoins)
    \/ Unjail({1})
    \/ EndBlockReturns
    \/ EndBlockCrashes

SpecLife == Init /\ [][NextLife]_vars

(***************************************************************************)
(* SpecUnjail: validator 1 and the static validator 11 are jailed, ask to  *)
(* be unjailed and validator 1 asks to join again, at any time.            *)
(***************************************************************************)
NextUnjail ==
    \/ BeginBlock(JailBlocks, {StaticVAddr(11)},
                  {<<>>, <<<<1, 1, 1>>>>, <<<<11, 1, 1>>>>, <<<<1, 1, 1>>, <<11, 1, 1>>>>})
    \/ JoinNode({1}, {BaseUnit}, DynVAddrs, {1})
    \/ Unjail({1, 11})
    \/ EndBlockReturns

SpecUnjail == Init /\ [][NextUnjail]_vars

(***************************************************************************)
(* SpecRejoin: validator 1 joins and joins again, with a bond of the        *)
(* minimal stake or of half of it, under either validator address and with *)
(* either council node info, and it is jailed; validator 2 joins and joins *)
(* again under either validator address.                                   *)
(***************************************************************************)
NextRejoin ==
    \/ BeginBlock(RejoinBlocks, {StaticVAddr(11)}, {<<>>, <<<<1, 1, 1>>>>})
    \/ JoinNode({1}, LifeCoins, DynVAddrs, {1, 2})
    \/ JoinNode({2}, {BaseUnit}, DynVAddrs, {1})
    \/ EndBlockReturns

SpecRejoin == Init /\ [][NextRejoin]_vars

(***************************************************************************)
(* SpecAbci: the ValidatorSet of chain-abci under insert, set_bonded,      *)
(* set_jailed and sanity_check.                                            *)
(***************************************************************************)
AbciReturns(op, staking, r) ==
    /\ set' = r.set
    /\ aborted' = r.panicked
    /\ ret' = Ret(op, staking, ~r.panicked, <<>>, {}, r.ret, <<>>)
    /\ UNCHANGED <<validator, validator_snapshot, reward_stat, punishment,
                   last_reward_distributio_time, rewards_pool, now, app, log, call, driver>>

AbciInsert ==
    /\ ~aborted
    /\ \E sa \in AbciStaking, va \in AbciVAddrs, bonded \in AbciCoins :
          AbciReturns("insert", sa,
                      abci_insert(set, AbciValidator(sa, va, bonded, FALSE)))

AbciSetBonded ==
    /\ ~aborted
    /\ \E sa \in AbciStaking, bonded \in AbciCoins :
          AbciReturns("set_bonded", sa, abci_set_bonded(set, sa, bonded))

AbciSetJailed ==
    /\ ~aborted
    /\ \E sa \in AbciStaking, jailed \in BOOLEAN :
          AbciReturns("set_jailed", sa, abci_set_jailed(set, sa, jailed))

AbciSanityCheck ==
    /\ ~aborted
    /\ AbciReturns("sanity_check", 0,
                   [set |-> set, ret |-> None, panicked |-> ~sanity_check(set)])

NextAbci ==
    \/ AbciInsert
    \/ AbciSetBonded
    \/ AbciSetJailed
    \/ AbciSanityCheck

SpecAbci == Init /\ [][NextAbci]_vars

(***************************************************************************)
(* SpecStore: the versioned store of the staking accounts.  Stakings are   *)
(* set in the staking buffer, a batch of them is committed per version,    *)
(* and the store is read, with and without proof, at any version.  The     *)
(* account of address 1 is written with either nonce, the accounts of the  *)
(* other addresses as they are by default; the account of address 1 is     *)
(* read and the proofs of address 2 are checked.                           *)
(***************************************************************************)
StoreReturns(op, addr, ok, args) ==
    /\ aborted' = ~ok
    /\ ret' = Ret(op, addr, ok, <<>>, {}, None, args)
    /\ UNCHANGED <<set, validator, validator_snapshot, reward_stat, punishment,
                   last_reward_distributio_time, rewards_pool, now, call, driver>>

SetStakingUpTo(versions, addrs, nonces) ==
    /\ ~aborted
    /\ app.version < versions
    /\ \E address \in addrs, nonce \in nonces :
          /\ Cardinality((DOMAIN app.staking_buffer) \cup {address}) <= MaxBatch
          /\ app' = App_set_staking(app, [StakedState_default(address)
                                             EXCEPT !.nonce = nonce])
          /\ StoreReturns("set_staking", address, TRUE, <<nonce>>)
    /\ UNCHANGED log

SetStaking(addrs, nonces) == SetStakingUpTo(MaxVersions, addrs, nonces)

\* the tests commit batches of stakings; the order of the values of the
\* staking buffer is any
CommitUpTo(versions) ==
    /\ ~aborted
    /\ app.version < versions
    /\ app.staking_buffer # EmptyMap
    /\ \E order \in HashMapOrders(DOMAIN app.staking_buffer) :
          /\ app' = App_commit(app, order)
          /\ log' = [log EXCEPT !.stakings = Append(@, app.staking_buffer),
                                !.root_hashes = Append(@, App_commit(app, order).root_hash)]
    /\ StoreReturns("commit", 0, TRUE, <<app.version>>)

Commit == CommitUpTo(MaxVersions)

\* StakingGetter::new(&app.storage, version).get(&address)
GetStaking(addrs) ==
    /\ ~aborted
    /\ \E version \in 0..(MaxVersions - 1), address \in addrs :
          LET r == StakingGetter_get(app.storage, version, address)
          IN /\ log' = [log EXCEPT !.got = r.value]
             /\ StoreReturns("get", address, ~r.panicked, <<version>>)
    /\ UNCHANGED app

\* check_proof: get_with_proof of the key of an address at a committed
\* version, and the verification of the proof against the root hash of the
\* version, whose unwrap panics when it fails
CheckProof(addrs) ==
    /\ ~aborted
    /\ \E version \in 0..(app.version - 1), address \in addrs :
          LET key == to_stake_key(address)
              r == get_with_proof(app.storage, key, version)
              ok == r.ok /\ verify(r.proof, log.root_hashes[version + 1], key, r.value)
          IN /\ log' = [log EXCEPT !.got = IF r.ok /\ r.value # NoBlob
                                            THEN StakedState_decode(r.value)
                                            ELSE NoStaking]
             /\ StoreReturns("check_proof", address, ok, <<version>>)
    /\ UNCHANGED app

NextStore ==
    \/ SetStaking({1}, Nonces)
    \/ SetStaking(StoreAddrs \ {1}, {0})
    \/ Commit
    \/ GetStaking({1})
    \/ CheckProof({2})

SpecStore == Init /\ [][NextStore]_vars

(***************************************************************************)
(* SpecGc: the store with the collection of the stale nodes.  Versions are *)
(* committed, the stale node indices of a version are collected, the       *)
(* indices collected are pruned with their nodes, and the store is read at *)
(* the committed versions.  The nonce of the accounts written changes from *)
(* each version to the next.                                               *)
(***************************************************************************)
GcReturns(op, ok, args) ==
    /\ aborted' = ~ok
    /\ ret' = Ret(op, 0, ok, <<>>, {}, None, args)
    /\ UNCHANGED <<set, validator, validator_snapshot, reward_stat, punishment,
                   last_reward_distributio_time, rewards_pool, now>>

CollectStale ==
    /\ ~aborted
    /\ \E stale_since \in 0..(GcVersions - 1) :
          /\ call' = [fn |-> "collect_stale_node_indices", from |-> <<>>,
                      in |-> stale_since,
                      out |-> collect_stale_node_indices(app.storage, stale_since)]
          /\ GcReturns("collect_stale", TRUE, <<stale_since>>)
    /\ UNCHANGED <<app, log, driver>>

\* the indices just collected, if any, are pruned
Prune ==
    /\ ~aborted
    /\ ret.op = "collect_stale"
    /\ call.out # <<>>
    /\ app' = [app EXCEPT !.storage = prune(@, call.out)]
    /\ log' = [log EXCEPT !.pruned = @ \cup {call.in}]
    /\ GcReturns("prune", TRUE, <<call.in>>)
    /\ UNCHANGED <<call, driver>>

\* a read with proof at a committed version; its unwrap panics when a node
\* of the version is missing or the proof does not verify
ReadVersion ==
    /\ ~aborted
    /\ \E version \in 0..(app.version - 1), address \in GcAddrs :
          LET key == to_stake_key(address)
              r == get_with_proof(app.storage, key, version)
              ok == r.ok /\ verify(r.proof, log.root_hashes[version + 1], key, r.value)
          IN GcReturns("check_proof", ok, <<version>>)
    /\ UNCHANGED <<app, log, call, driver>>

NextGc ==
    \/ SetStakingUpTo(GcVersions, GcAddrs, {app.version % 2})
    \/ CommitUpTo(GcVersions)
    \/ CollectStale
    \/ Prune
    \/ ReadVersion

SpecGc == Init /\ [][NextGc]_vars

(***************************************************************************)
(* SpecCrash: App::commit statement by statement.  The process may stop    *)
(* between any two statements, and the committed store is read while the   *)
(* commit is under way.                                                    *)
(***************************************************************************)
CommitFlushStakings ==
    /\ ~aborted
    /\ log.pc = "idle"
    /\ app.version < MaxVersions
    /\ app.staking_buffer # EmptyMap
    /\ \E order \in HashMapOrders(DOMAIN app.staking_buffer) :
          /\ app' = App_flush_stakings(app, order)
          /\ log' = [log EXCEPT !.stakings = Append(@, app.staking_buffer),
                                !.pc = "flush_kvdb"]
    /\ StoreReturns("flush_stakings", 0, TRUE, <<app.version>>)

CommitFlushKvdb ==
    /\ ~aborted
    /\ log.pc = "flush_kvdb"
    /\ app' = App_flush_kvdb(app)
    /\ log' = [log EXCEPT !.pc = "version"]
    /\ StoreReturns("flush_kvdb", 0, TRUE, <<app.version>>)

CommitNextVersion ==
    /\ ~aborted
    /\ log.pc = "version"
    /\ app' = App_next_version(app)
    /\ log' = [log EXCEPT !.root_hashes = Append(@, app.root_hash), !.pc = "idle"]
    /\ StoreReturns("commit", 0, TRUE, <<app.version>>)

\* the process stops, wherever it is
Stop ==
    /\ ~aborted
    /\ StoreReturns("stop", 0, FALSE, <<app.version>>)
    /\ UNCHANGED <<app, log>>

NextCrash ==
    \/ log.pc = "idle" /\ SetStaking({1}, Nonces)
    \/ log.pc = "idle" /\ SetStaking({2}, {0})
    \/ CommitFlushStakings
    \/ CommitFlushKvdb
    \/ CommitNextVersion
    \/ Stop
    \/ GetStaking({1})

SpecCrash == Init /\ [][NextCrash]_vars

\* a pure function returns: the call, its input and its output are kept
PureReturns(fn, from, in, out) ==
    /\ call' = [fn |-> fn, from |-> from, in |-> in, out |-> out]
    /\ UNCHANGED <<set, validator, validator_snapshot, reward_stat, punishment,
                   last_reward_distributio_time, rewards_pool, aborted, now, app,
                   log, driver, ret>>

(***************************************************************************)
(* InitChain of chain-abci.  A consensus public key is <<key type, key     *)
(* data>>, a ValidatorUpdate is a public key (NoKey when the field is not  *)
(* set) and a power, a council node has its consensus public key, and a    *)
(* distribution gives each address a destination and an amount.            *)
(***************************************************************************)
NoKey == <<>>
ValidatorUpdate(pub_key, power) == [pub_key |-> pub_key, power |-> power]
CouncilNode(consensus_pubkey) == [consensus_pubkey |-> consensus_pubkey]

\* TendermintVotePower::from(Coin): the whole base units of the amount
TendermintVotePower_from(coin) == coin \div BaseUnit

get_validator_key(node) == node.consensus_pubkey

get_voting_power(distribution, node_address) ==
    TendermintVotePower_from(distribution[node_address][2])

\* fn_sort_key: the key type and the key data of the public key, if any; an
\* Option that is None comes before every Some
fn_sort_key(a) == a.pub_key

\* slice::sort_by_key, a stable sort: each item goes behind the items whose
\* key is not greater
RECURSIVE sort_by_key(_)
sort_by_key(seq) ==
    IF seq = <<>> THEN <<>>
    ELSE LET last == seq[Len(seq)]
             sorted == sort_by_key(SubSeq(seq, 1, Len(seq) - 1))
             n == Cardinality({i \in 1..Len(sorted) :
                                 bytes_cmp(fn_sort_key(sorted[i]), fn_sort_key(last)) <= 0})
         IN SubSeq(sorted, 1, n) \o <<last>> \o SubSeq(sorted, n + 1, Len(sorted))

\* ValidatorState::default and add_initial_validator: the initial validator
\* of a staking address
ValidatorState_default == EmptyMap
add_initial_validator(validator_state, address, power, node) ==
    MapPut(validator_state, address, [power |-> power, council_node |-> node])

RECURSIVE add_initial_validators(_, _, _)
add_initial_validators(validator_state, nodes, distribution) ==
    IF nodes = <<>> THEN validator_state
    ELSE add_initial_validators(
             add_initial_validator(validator_state, nodes[1][1],
                                   get_voting_power(distribution, nodes[1][1]),
                                   nodes[1][2]),
             Tail(nodes), distribution)

\* the validators derived from the council nodes, in the order of the nodes
derived_validators(nodes, distribution) ==
    [i \in 1..Len(nodes) |->
        ValidatorUpdate(get_validator_key(nodes[i][2]),
                        get_voting_power(distribution, nodes[i][1]))]

\* mutant: the two lists are compared as they come
check_validators_unsorted(nodes, req_validators, distribution) ==
    [ok |-> derived_validators(nodes, distribution) = req_validators,
     validator_state |->
         add_initial_validators(ValidatorState_default, nodes, distribution)]
\* check_validators: ok for Ok(validator_state)
check_validators(nodes, req_validators, distribution) ==
    [ok |-> sort_by_key(derived_validators(nodes, distribution))
                = sort_by_key(req_validators),
     validator_state |->
         add_initial_validators(ValidatorState_default, nodes, distribution)]

\* BlockHeight::genesis
BlockHeight_genesis == 0
\* last_state: None
NoState == [last_block_height |-> None]

\* InitConfig::validate_config_get_genesis: the accounts of the
\* distribution, the rewards pool and the council nodes; ok is FALSE for the
\* error of a council node without a bonded account in the distribution
validate_config_get_genesis(conf, genesis_time) ==
    LET addrs == DOMAIN conf.distribution
    IN [ok |-> \A i \in 1..Len(conf.council_nodes) :
                   /\ conf.council_nodes[i][1] \in addrs
                   /\ conf.distribution[conf.council_nodes[i][1]][1] = "Bonded",
        accounts |-> {[address |-> a,
                       bonded |-> IF conf.distribution[a][1] = "Bonded"
                                  THEN conf.distribution[a][2] ELSE 0,
                       unbonded |-> IF conf.distribution[a][1] = "Bonded"
                                    THEN 0 ELSE conf.distribution[a][2],
                       unbonded_from |-> genesis_time] : a \in addrs},
        rp |-> conf.rewards_pool,
        nodes |-> conf.council_nodes]

\* compute_accounts_root: the root of the trie of the accounts, a hash that
\* spells what was hashed
compute_accounts_root(accounts) == [accounts |-> accounts]

\* MerkleTree::empty and compute_app_hash: a hash that spells what was
\* hashed
MerkleTree_empty == <<>>
compute_app_hash(tx_tree, account_root, rp, network_params) ==
    [tx_root |-> tx_tree, account_root |-> account_root,
     rewards_pool |-> rp, network_params |-> network_params]

\* ChainNodeState::genesis
ChainNodeState_genesis(genesis_apphash, genesis_time, account_root, rp, network_params, validators) ==
    [last_block_height |-> BlockHeight_genesis,
     last_apphash |-> genesis_apphash,
     block_time |-> genesis_time,
     validators |-> validators,
     genesis_time |-> genesis_time,
     top_level |-> [account_root |-> account_root, rewards_pool |-> rp,
                    network_params |-> network_params]]

\* Storage: what is persisted and the writes that wait for persist_write
Storage_store(storage, key, value) ==
    [storage EXCEPT !.pending = MapPut(@, key, value)]
Storage_persist_write(storage) ==
    [storage EXCEPT !.persisted = [k \in (DOMAIN @) \cup (DOMAIN storage.pending) |->
                                      IF k \in DOMAIN storage.pending
                                      THEN storage.pending[k] ELSE @[k]],
                    !.pending = EmptyMap]

\* ChainNodeApp::new_with_storage on an empty storage
ChainNodeApp_new(gah, chain_id) ==
    [storage |-> [chain_id |-> chain_id, persisted |-> EmptyMap, pending |-> EmptyMap],
     accounts |-> {},
     uncommitted_account_root_hash |-> [zero |-> 32],
     genesis_app_hash |-> gah,
     last_state |-> NoState]

\* check_and_store_consensus_params
check_and_store_consensus_params(init_consensus_params, storage) ==
    IF init_consensus_params # None
    THEN Storage_store(storage, "consensus-params", init_consensus_params)
    ELSE storage

\* mutant: the genesis state is stored and kept whatever check_validators
\* returns
init_chain_handler_unchecked(self, req, write_ok) ==
    LET g == validate_config_get_genesis(req.app_state.conf, req.time)
        new_account_root == compute_accounts_root(g.accounts)
        genesis_app_hash == compute_app_hash(MerkleTree_empty, new_account_root, g.rp,
                                             req.app_state.conf.network_params)
        accounts == [self EXCEPT !.accounts = @ \cup {new_account_root}]
        cv == check_validators(g.nodes, req.validators, req.app_state.conf.distribution)
        genesis_state == ChainNodeState_genesis(
                             genesis_app_hash, req.time, new_account_root, g.rp,
                             req.app_state.conf.network_params, cv.validator_state)
        stored == Storage_store(
                      check_and_store_consensus_params(req.consensus_params, self.storage),
                      "last-app-state", genesis_state)
    IN IF ~req.app_state.parses \/ req.time = None \/ ~g.ok
       THEN [self |-> self, panicked |-> TRUE]
       ELSE IF self.storage.chain_id # req.chain_id
       THEN [self |-> self, panicked |-> TRUE]
       ELSE IF self.genesis_app_hash # genesis_app_hash
       THEN [self |-> accounts, panicked |-> TRUE]
       ELSE IF ~write_ok
       THEN [self |-> [accounts EXCEPT !.storage = stored], panicked |-> TRUE]
       ELSE [self |-> [accounts EXCEPT
                          !.storage = Storage_persist_write(stored),
                          !.uncommitted_account_root_hash =
                              genesis_state.top_level.account_root,
                          !.last_state = genesis_state],
             panicked |-> FALSE]
\* ChainNodeApp::init_chain_handler; panicked where it panics, write_ok is
\* FALSE where persist_write returns an error
init_chain_handler(self, req, write_ok) ==
    LET g == validate_config_get_genesis(req.app_state.conf, req.time)
        new_account_root == compute_accounts_root(g.accounts)
        genesis_app_hash == compute_app_hash(MerkleTree_empty, new_account_root, g.rp,
                                             req.app_state.conf.network_params)
        accounts == [self EXCEPT !.accounts = @ \cup {new_account_root}]
        params == [accounts EXCEPT
                      !.storage = check_and_store_consensus_params(req.consensus_params, @)]
        cv == check_validators(g.nodes, req.validators, req.app_state.conf.distribution)
        genesis_state == ChainNodeState_genesis(
                             genesis_app_hash, req.time, new_account_root, g.rp,
                             req.app_state.conf.network_params, cv.validator_state)
        stored == Storage_store(params.storage, "last-app-state", genesis_state)
    IN IF ~req.app_state.parses \/ req.time = None \/ ~g.ok
       THEN [self |-> self, panicked |-> TRUE]
       ELSE IF self.storage.chain_id # req.chain_id
       THEN [self |-> self, panicked |-> TRUE]
       ELSE IF self.genesis_app_hash # genesis_app_hash
       THEN [self |-> accounts, panicked |-> TRUE]
       ELSE IF ~cv.ok
       THEN [self |-> params, panicked |-> TRUE]
       ELSE IF ~write_ok
       THEN [self |-> [params EXCEPT !.storage = stored], panicked |-> TRUE]
       ELSE [self |-> [params EXCEPT
                          !.storage = Storage_persist_write(stored),
                          !.uncommitted_account_root_hash =
                              genesis_state.top_level.account_root,
                          !.last_state = genesis_state],
             panicked |-> FALSE]

(***************************************************************************)
(* SpecCheck: check_validators on the council nodes of at most two staking *)
(* addresses, in either order, on at most two validators of the request,   *)
(* and on the distributions of the two addresses.                          *)
(***************************************************************************)
ConsensusKeys == {<<1, 1>>, <<1, 2>>}
InitAddrs == {1, 2}
InitCoins == {BaseUnit, 2 * BaseUnit + 1}
InitPowers == {1, 2}
Destinations == {"Bonded"}

SeqsUpTo(S, n) == UNION {[1..k -> S] : k \in 0..n}
NodeLists ==
    {nodes \in SeqsUpTo(InitAddrs \X {CouncilNode(k) : k \in ConsensusKeys},
                        Cardinality(InitAddrs)) :
        \A i, j \in 1..Len(nodes) : nodes[i][1] = nodes[j][1] => i = j}
ReqValidatorLists ==
    SeqsUpTo({ValidatorUpdate(k, power) : k \in ConsensusKeys, power \in InitPowers},
             Cardinality(InitAddrs))
Distributions == [InitAddrs -> Destinations \X InitCoins]

CheckValidators ==
    /\ call = NoCall
    /\ \E nodes \in NodeLists, req_validators \in ReqValidatorLists,
          distribution \in Distributions :
          PureReturns("check_validators", <<>>, <<nodes, req_validators, distribution>>,
                      check_validators(nodes, req_validators, distribution))

NextCheck ==
    \/ CheckValidators

SpecCheck == Init /\ [][NextCheck]_vars

(***************************************************************************)
(* SpecGenesis: App::init_chain of pure.rs on the genesis accounts of two  *)
(* addresses and the council nodes of some of them.                        *)
(***************************************************************************)
GenesisBonded == {BaseUnit, 10 * BaseUnit}
GenesisUnbonded == {0, 2 * BaseUnit}
MinStakes == {BaseUnit \div 2, BaseUnit}
MaxCounts == {1, 2}
GenesisAccounts ==
    {[i \in 1..Cardinality(InitAddrs) |->
         [address |-> i, bonded |-> f[i][1], unbonded |-> f[i][2]]] :
        f \in [InitAddrs -> GenesisBonded \X GenesisUnbonded]}

InitChainPure ==
    /\ call = NoCall
    /\ \E accounts \in GenesisAccounts, nodes \in NodeLists,
          min_stake \in MinStakes, max_count \in MaxCounts :
          PureReturns("init_chain", <<>>, <<accounts, nodes, min_stake, max_count>>,
                      pure_init_chain(accounts, nodes, min_stake, max_count))

NextGenesis ==
    \/ InitChainPure

SpecGenesis == Init /\ [][NextGenesis]_vars

(***************************************************************************)
(* check_unseal of the transaction enclave.  A sealed log is the bytes of  *)
(* a SealedData: it parses or not, it unseals or not, and when it unseals  *)
(* it gives the additional text (a transaction id) and the decrypted text  *)
(* (an encoded TxWithOutputs: the tag of the variant and the view keys of  *)
(* its allowed_view).                                                      *)
(***************************************************************************)
NoViewKey == 0
TagTransfer == 0
TagStakeWithdraw == 1
SealedLog(parses, unseals, txid, tag, allowed_view) ==
    [parses |-> parses, unseals |-> unseals, additional_txt |-> txid,
     decrypt_txt |-> <<tag>> \o allowed_view]

\* TxWithOutputs::decode: the variant of the tag, an error for any other tag
TxWithOutputs_decode(data) ==
    IF data[1] = TagTransfer
    THEN [ok |-> TRUE, kind |-> "Transfer", allowed_view |-> Tail(data)]
    ELSE IF data[1] = TagStakeWithdraw
    THEN [ok |-> TRUE, kind |-> "StakeWithdraw", allowed_view |-> Tail(data)]
    ELSE [ok |-> FALSE, kind |-> "", allowed_view |-> <<>>]

is_allowed_view(allowed_views, view_key, check_allowed_views) ==
    IF view_key # NoViewKey /\ check_allowed_views
    THEN \E i \in 1..Len(allowed_views) : allowed_views[i] = view_key
    ELSE ~check_allowed_views

\* the loop of check_unseal over txids zipped with the sealed logs, from
\* position i on; some is FALSE for None
RECURSIVE check_unseal_from(_, _, _, _, _, _)
check_unseal_from(view_key, check_allowed_views, txids, sealed_logs, i, return_result) ==
    IF i > Len(txids) \/ i > Len(sealed_logs)
    THEN [some |-> TRUE, txs |-> return_result]
    ELSE LET sealed_log == sealed_logs[i]
             otx == TxWithOutputs_decode(sealed_log.decrypt_txt)
         IN IF ~sealed_log.parses THEN [some |-> FALSE, txs |-> <<>>]
            ELSE IF ~sealed_log.unseals THEN [some |-> FALSE, txs |-> <<>>]
            ELSE IF sealed_log.additional_txt # txids[i]
            THEN [some |-> FALSE, txs |-> <<>>]
            ELSE IF ~otx.ok THEN [some |-> FALSE, txs |-> <<>>]
            ELSE check_unseal_from(
                     view_key, check_allowed_views, txids, sealed_logs, i + 1,
                     IF is_allowed_view(otx.allowed_view, view_key, check_allowed_views)
                     THEN Append(return_result, otx)
                     ELSE return_result)

check_unseal(view_key, check_allowed_views, txids, sealed_logs) ==
    check_unseal_from(view_key, check_allowed_views, txids, sealed_logs, 1, <<>>)

(***************************************************************************)
(* SpecUnseal: check_unseal on at most two expected transaction ids and at *)
(* most two sealed logs, with and without a view key.                      *)
(***************************************************************************)
TxIds == {1, 2}
ViewKeys == {NoViewKey, 7}
SealedLogs ==
    {SealedLog(FALSE, FALSE, 1, TagTransfer, <<>>),
     SealedLog(TRUE, FALSE, 1, TagTransfer, <<>>)}
    \cup {SealedLog(TRUE, TRUE, txid, tx[1], tx[2]) :
             txid \in TxIds,
             tx \in {<<TagTransfer, <<7>>>>, <<TagStakeWithdraw, <<>>>>, <<2, <<7>>>>}}

CheckUnseal ==
    /\ call = NoCall
    /\ \E view_key \in ViewKeys, check_allowed_views \in BOOLEAN,
          txids \in SeqsUpTo(TxIds, 2), sealed_logs \in SeqsUpTo(SealedLogs, 2) :
          PureReturns("check_unseal", <<>>,
                      <<view_key, check_allowed_views, txids, sealed_logs>>,
                      check_unseal(view_key, check_allowed_views, txids, sealed_logs))

NextUnseal ==
    \/ CheckUnseal

SpecUnseal == Init /\ [][NextUnseal]_vars

(***************************************************************************)
(* SpecOrders: two ValidatorSets of chain-abci, each reached from the      *)
(* empty set by its own list of at most three calls of insert, set_bonded  *)
(* and set_jailed.                                                         *)
(***************************************************************************)
AbciCalls ==
    {[op |-> "insert", staking |-> sa, bonded |-> BaseUnit, jailed |-> FALSE] :
        sa \in {1, 2}}
    \cup {[op |-> "set_bonded", staking |-> sa, bonded |-> 6 * BaseUnit, jailed |-> FALSE] :
             sa \in {1, 2}}
    \cup {[op |-> "set_jailed", staking |-> 1, bonded |-> 0, jailed |-> TRUE]}

\* the validator address of the validator of a staking address
ValidatorAddressOf(sa) == 10 + sa

abci_call(vs, c) ==
    CASE c.op = "insert" ->
            abci_insert(vs, AbciValidator(c.staking, ValidatorAddressOf(c.staking),
                                          c.bonded, FALSE))
      [] c.op = "set_bonded" -> abci_set_bonded(vs, c.staking, c.bonded)
      [] c.op = "set_jailed" -> abci_set_jailed(vs, c.staking, c.jailed)

RECURSIVE abci_calls(_, _)
abci_calls(r, calls) ==
    IF calls = <<>> \/ r.panicked THEN r
    ELSE abci_calls(abci_call(r.set, calls[1]), Tail(calls))

TwoValidatorSets ==
    /\ call = NoCall
    /\ \E calls1 \in SeqsUpTo(AbciCalls, 3), calls2 \in SeqsUpTo(AbciCalls, 3) :
          LET start == [set |-> abci_new, ret |-> None, panicked |-> FALSE]
          IN PureReturns("validator_sets", <<>>, <<calls1, calls2>>,
                         <<abci_calls(start, calls1), abci_calls(start, calls2)>>)

NextOrders ==
    \/ TwoValidatorSets

SpecOrders == Init /\ [][NextOrders]_vars

(***************************************************************************)
(* SpecInitChain: init_chain_handler on a ChainNodeApp that has no state   *)
(* yet, with the chain ids, the declared genesis app hash, the genesis     *)
(* configuration and the validators of the request chosen freely.          *)
(***************************************************************************)
ChainIds == {"test-chain-AB", "test-chain-CD"}
InitConfs ==
    {[distribution |-> d, council_nodes |-> nodes, rewards_pool |-> 0,
      network_params |-> "genesis"] :
        d \in {[a \in InitAddrs |-> <<"Bonded", BaseUnit>>],
               [a \in InitAddrs |-> <<IF a = 1 THEN "Bonded" ELSE "UnbondedFromGenesis",
                                       2 * BaseUnit + 1>>]},
        nodes \in {<<<<1, CouncilNode(<<1, 1>>)>>>>,
                   <<<<1, CouncilNode(<<1, 1>>)>>, <<2, CouncilNode(<<1, 2>>)>>>>}}
AppStates == {[parses |-> p, conf |-> c] : p \in BOOLEAN, c \in InitConfs}
GenesisAppHashes ==
    {compute_app_hash(MerkleTree_empty,
                      compute_accounts_root(validate_config_get_genesis(c, t).accounts),
                      c.rewards_pool, c.network_params) :
        c \in {x \in InitConfs : Len(x.council_nodes) = 1}, t \in {1}}
InitRequests ==
    [chain_id : ChainIds, time : {None, 1}, app_state : AppStates,
     validators : ReqValidatorLists,
     consensus_params : {None, 1}]

InitChain ==
    /\ call = NoCall
    /\ \E gah \in GenesisAppHashes, chain_id \in ChainIds, req \in InitRequests,
          write_ok \in BOOLEAN :
          PureReturns("init_chain_handler", <<>>,
                      <<ChainNodeApp_new(gah, chain_id), req, write_ok>>,
                      init_chain_handler(ChainNodeApp_new(gah, chain_id), req, write_ok))

NextInitChain ==
    \/ InitChain

SpecInitChain == Init /\ [][NextInitChain]_vars

(***************************************************************************)
(* SpecDiff: diff_candidates of two lists of candidates.                   *)
(***************************************************************************)
CandidateKeys == {1, 2}
CandidatePowers == {1, 2}
CandidateLists ==
    {c \in SeqsUpTo(CandidateKeys \X CandidatePowers, Cardinality(CandidateKeys)) :
        \A i, j \in 1..Len(c) : c[i][1] = c[j][1] => i = j}

DiffCandidates ==
    /\ call = NoCall
    /\ \E new \in CandidateLists, old \in CandidateLists :
          PureReturns("diff_candidates", <<>>, <<new, old>>, diff_candidates(new, old))

NextDiff ==
    \/ DiffCandidates

SpecDiff == Init /\ [][NextDiff]_vars

(***************************************************************************)
(* SpecDriver: the App of pure.rs under calls of init_chain, begin_block,  *)
(* end_block and commit in any order.  A call that panics ends the         *)
(* process.                                                                *)
(***************************************************************************)
DriverAccounts == {a \in GenesisAccounts : \A i \in 1..Len(a) : a[i].bonded = BaseUnit}
DriverParams == [required_council_node_stake : MinStakes, max_validators : MaxCounts]
DriverHeaders == [app_hash : {[tx_root |-> <<>>]}, time : {1, 2}, height : {1, 2}]

DriverReturns(fn, in, out) ==
    /\ call' = [fn |-> fn, from |-> driver, in |-> in, out |-> out]
    /\ UNCHANGED <<set, validator, validator_snapshot, reward_stat, punishment,
                   last_reward_distributio_time, rewards_pool, aborted, now, app,
                   log, ret>>

DriverInitChain ==
    /\ ~driver.panicked
    /\ \E accounts \in DriverAccounts, nodes \in NodeLists, params \in DriverParams :
          LET r == App_init_chain(driver, <<accounts, 0, nodes>>, params, 0)
          IN /\ driver' = r.self
             /\ DriverReturns("init_chain", <<>>, r.candidates)

DriverBeginBlock ==
    /\ ~driver.panicked
    /\ \E header \in DriverHeaders :
          /\ driver' = App_begin_block(driver, header)
          /\ DriverReturns("begin_block", header, <<>>)

DriverEndBlock ==
    /\ ~driver.panicked
    /\ driver' = App_end_block(driver)
    /\ DriverReturns("end_block", <<>>, <<>>)

DriverCommit ==
    /\ ~driver.panicked
    /\ driver' = App_pure_commit(driver)
    /\ DriverReturns("commit", <<>>, <<>>)

NextDriver ==
    \/ DriverInitChain
    \/ DriverBeginBlock
    \/ DriverEndBlock
    \/ DriverCommit

SpecDriver == Init /\ [][NextDriver]_vars

(***************************************************************************)
(* SpecCodec: the keys of the stale node indices.  Two stale indices are   *)
(* encoded, and the two keys are decoded again.  The versions lie on both  *)
(* sides of the byte boundaries.                                           *)
(***************************************************************************)
StaleVersions == {0, 1, 255, 256, 257, 65536}
CodecNodeKeys == {<<v, path>> : v \in {0, 256}, path \in {<<>>, <<0, 1>>}}
StaleIndices == [stale_since_version : StaleVersions, node_key : CodecNodeKeys]

EncodeStaleIndices ==
    /\ call = NoCall
    /\ \E i \in StaleIndices, j \in StaleIndices :
          PureReturns("encode_stale_node_index", <<i, j>>, <<i, j>>,
                      <<encode_stale_node_index(i), encode_stale_node_index(j)>>)

DecodeStaleIndices ==
    /\ call.fn = "encode_stale_node_index"
    /\ PureReturns("decode_stale_node_index", call.in, call.out,
                   <<decode_stale_node_index(call.out[1]),
                     decode_stale_node_index(call.out[2])>>)

NextCodec ==
    \/ EncodeStaleIndices
    \/ DecodeStaleIndices

SpecCodec == Init /\ [][NextCodec]_vars

(***************************************************************************)
(* Claims on the validator table and the snapshot.                         *)
(***************************************************************************)
OccupiedOids(vs) == {oid \in DOMAIN vs.heap.entries : Occupied(vs.heap.entries[oid])}
Range(m) == {m[k] : k \in DOMAIN m}

\* C1: after any sequence of insert, join_node (first join and re-join),
\* set_bonded_coin, remove and cleanup the row table and its three indices
\* agree: they have the same number of entries, every row is reached from each
\* index under its current staking address, its current validator address and
\* its current (bonded_coins, staking_address) sort key, and no index entry
\* points at a removed row.
C1_IndicesAgree ==
    ~aborted =>
        LET vs == validator
            rows == OccupiedOids(vs)
        IN /\ Cardinality(rows) = Cardinality(DOMAIN vs.idx_staking_address)
           /\ Cardinality(rows) = Cardinality(DOMAIN vs.idx_validator_address)
           /\ Cardinality(rows) = Cardinality(DOMAIN vs.idx_sort_key)
           /\ \A oid \in rows :
                 LET v == vs.heap.entries[oid]
                     key == ValidatorSortKey(v.bonded_coins, v.staking_address)
                 IN /\ v.staking_address \in DOMAIN vs.idx_staking_address
                    /\ vs.idx_staking_address[v.staking_address] = oid
                    /\ v.validator_address \in DOMAIN vs.idx_validator_address
                    /\ vs.idx_validator_address[v.validator_address] = oid
                    /\ key \in DOMAIN vs.idx_sort_key
                    /\ vs.idx_sort_key[key] = oid
           /\ Range(vs.idx_staking_address) \subseteq rows
           /\ Range(vs.idx_validator_address) \subseteq rows
           /\ Range(vs.idx_sort_key) \subseteq rows

\* C2: after set_bonded_coin(staking_address, value) on an existing validator
\* the sort-index entry of that validator is keyed by the new bonded amount.
C2_SortKeyFollowsBond ==
    (ret.op = "set_bonded_coin" /\ ret.ok) =>
        LET oid == validator.idx_staking_address[ret.addr]
            v == validator.heap.entries[oid]
            key == ValidatorSortKey(v.bonded_coins, v.staking_address)
        IN /\ key \in DOMAIN validator.idx_sort_key
           /\ validator.idx_sort_key[key] = oid

ActiveOids(vs) == {oid \in OccupiedOids(vs) : is_active(vs.heap.entries[oid])}

\* C4: the snapshot computed by end_block is the top-K set: it holds the
\* K = MAX_VALIDATORS active validators of highest voting power (all of them
\* when fewer are active), so no active validator left out of it has strictly
\* more bonded coins than one included in it.
C4_SnapshotIsTopK ==
    (ret.op = "end_block" /\ ret.ok) =>
        LET e == validator.heap.entries
            act == ActiveOids(validator)
            inside == {oid \in act : e[oid].validator_address \in DOMAIN validator_snapshot}
        IN /\ Cardinality(DOMAIN validator_snapshot) =
                 (IF Cardinality(act) < MAX_VALIDATORS THEN Cardinality(act)
                  ELSE MAX_VALIDATORS)
           /\ \A out \in act \ inside : \A in \in inside :
                 e[out].bonded_coins <= e[in].bonded_coins

\* applying validator updates to a snapshot, in their emitted order
RECURSIVE ApplyUpdates(_, _)
ApplyUpdates(snapshot, updates) ==
    IF updates = <<>> THEN snapshot
    ELSE LET u == Head(updates)
         IN ApplyUpdates(IF u[2] = 0 THEN MapDel(snapshot, u[1])
                         ELSE MapPut(snapshot, u[1], u[2]),
                         Tail(updates))

UpdateLess(u, w) == u[1] < w[1] \/ (u[1] = w[1] /\ u[2] < w[2])

\* C7: end_block returns the validator updates as the same list on every run,
\* ordered by a total order on (validator address, power); the order depends
\* neither on the insertion order nor on the iteration order of a map.
C7_UpdatesAreOrdered ==
    (ret.op = "end_block" /\ ret.ok) =>
        \A i, j \in 1..Len(ret.updates) :
            i < j => UpdateLess(ret.updates[i], ret.updates[j])

(***************************************************************************)
(* Claims on jailing and slashing.                                         *)
(***************************************************************************)
PunishmentRow(ps, sa) == ps.heap.entries[ps.idx_staking_address[sa]]

\* C8: jailing a staking address that has a punishment row already never
\* changes the jail_time of the row and never changes a slash_amount that is
\* set; slash_rate and slash_reason are replaced only by a strictly higher
\* slash_rate and only while the slash is not executed, so the slash_rate of a
\* row never decreases.  Jailing an address without a row inserts one with
\* jail_time = block_time and slash_amount unset.
C8_JailKeepsRow ==
    [][ret'.op = "begin_block" =>
          \A sa \in ret'.jailed :
              /\ PunishmentSet_contains(punishment', sa)
              /\ LET new == PunishmentRow(punishment', sa)
                 IN IF PunishmentSet_contains(punishment, sa)
                    THEN LET old == PunishmentRow(punishment, sa)
                         IN /\ new.jail_time = old.jail_time
                            /\ old.slash_amount # None =>
                                   new.slash_amount = old.slash_amount
                            /\ new.slash_rate >= old.slash_rate
                            /\ (\/ new.slash_rate # old.slash_rate
                                \/ new.slash_reason # old.slash_reason) =>
                                   /\ new.slash_rate > old.slash_rate
                                   /\ old.slash_amount = None
                    ELSE /\ new.jail_time = now'
                         /\ new.slash_amount = None]_vars

\* a begin_block jailed address 1 again after its slash was executed in an
\* earlier block, and its row has the higher of the slash rates
C8_Witness ==
    /\ ret.op = "begin_block"
    /\ 1 \in ret.jailed
    /\ PunishmentSet_contains(punishment, 1)
    /\ PunishmentRow(punishment, 1).slash_amount # None
    /\ PunishmentRow(punishment, 1).jail_time + SLASH_WAIT_PERIOD <= now - TimeStep
    /\ PunishmentRow(punishment, 1).slash_rate = 2

BondedOf(vs, sa) == vs.heap.entries[vs.idx_staking_address[sa]].bonded_coins

\* the punishment rows a begin_block at block_time has to slash
DueRows(ps, block_time) ==
    {sa \in DOMAIN ps.idx_staking_address :
        /\ PunishmentRow(ps, sa).slash_amount = None
        /\ PunishmentRow(ps, sa).jail_time + SLASH_WAIT_PERIOD <= block_time}

\* C9: slash execution: in begin_block at block_time, for every punishment row
\* whose slash_amount is unset and with jail_time + SLASH_WAIT_PERIOD <=
\* block_time, the amount of the slash is recorded in the row, the bonded
\* amount of the validator (and with it its voting power) is reduced by that
\* amount and the rewards pool is credited with it; the rows that do not meet
\* the condition keep their slash_amount.
C9_SlashReducesBond ==
    [][ret'.op = "begin_block" =>
          LET due == DueRows(punishment, now')
              amounts == [sa \in due |-> PunishmentRow(punishment', sa).slash_amount]
          IN /\ \A sa \in due :
                   /\ amounts[sa] # None
                   /\ ValidatorSet_has(validator, sa) =>
                          /\ BondedOf(validator', sa) =
                                 BondedOf(validator, sa) - amounts[sa]
                          /\ BondedOf(validator', sa) < BondedOf(validator, sa)
             /\ rewards_pool' = rewards_pool + SumValues(amounts)
             /\ \A sa \in (DOMAIN punishment.idx_staking_address) \ due :
                   PunishmentRow(punishment', sa).slash_amount =
                       PunishmentRow(punishment, sa).slash_amount]_vars

BoundStaking(vs, va) ==
    {vs.heap.entries[oid].staking_address :
        oid \in {o \in OccupiedOids(vs) : vs.heap.entries[o].validator_address = va}}

\* the accrual map with the block of each of the staking addresses counted
CountBlock(stat, addrs) ==
    [sa \in (DOMAIN stat) \cup addrs |->
        (IF sa \in DOMAIN stat THEN stat[sa] ELSE 0) + (IF sa \in addrs THEN 1 ELSE 0)]

\* C11: reward accrual: each begin_block increments by exactly one the block
\* count of the staking address bound to the proposer's validator address;
\* when block_time - last_reward_distribution_time >= REWARD_PERIOD the accrued
\* counts are distributed, the accrual map is emptied and
\* last_reward_distribution_time becomes block_time; otherwise the accrual map
\* keeps all earlier counts and last_reward_distribution_time is unchanged.
C11_RewardAccrual ==
    [][ret'.op = "begin_block" =>
          /\ ret'.ok
          /\ IF now' - last_reward_distributio_time >= REWARD_PERIOD
             THEN /\ reward_stat' = EmptyMap
                  /\ last_reward_distributio_time' = now'
             ELSE /\ reward_stat' =
                         CountBlock(reward_stat, BoundStaking(validator, ret'.args[1]))
                  /\ last_reward_distributio_time' =
                         last_reward_distributio_time]_vars

\* C12: inactivation: end_block(block_time) sets inactive_time = block_time for
\* exactly the validators that were active and either have bonded_coins <
\* MINIMAL_REQUIRED_STAKING or have a row in PunishmentSet; the inactive_time
\* of every other validator is left unchanged, so an inactive validator keeps
\* its original inactive_time.
C12_Inactivation ==
    [][(ret'.op = "end_block" /\ ret'.ok) =>
          \A oid \in OccupiedOids(validator) :
              LET v == validator.heap.entries[oid]
                  w == validator'.heap.entries[oid]
              IN IF /\ is_active(v)
                    /\ \/ v.bonded_coins < MINIMAL_REQUIRED_STAKING
                       \/ PunishmentSet_contains(punishment, v.staking_address)
                 THEN Occupied(w) /\ w.inactive_time = now
                 ELSE Occupied(w) => w.inactive_time = v.inactive_time]_vars

\* an end_block has inactivated validator 1, which is punished and has a bond
\* of the minimal stake
C12_WitnessPunished ==
    /\ ret.op = "end_block"
    /\ ret.ok
    /\ ValidatorSet_has(validator, 1)
    /\ PunishmentSet_contains(punishment, 1)
    /\ BondedOf(validator, 1) >= MINIMAL_REQUIRED_STAKING
    /\ validator.heap.entries[validator.idx_staking_address[1]].inactive_time = now
    /\ now > 0

\* C13: cleanup: end_block(block_time) removes a validator row if and only if
\* the row is inactive with inactive_time + MAX_EVIDENCE_AGE < block_time, has
\* no entry in the reward accrual map and has no row in PunishmentSet; so no
\* validator is removed while active, while punished, while owed a reward or
\* within MAX_EVIDENCE_AGE of becoming inactive.
C13_Cleanup ==
    [][(ret'.op = "end_block" /\ ret'.ok) =>
          \A oid \in OccupiedOids(validator) :
              LET v == validator.heap.entries[oid]
              IN ~Occupied(validator'.heap.entries[oid]) <=>
                     /\ v.inactive_time # None
                     /\ v.inactive_time + MAX_EVIDENCE_AGE < now
                     /\ v.staking_address \notin DOMAIN reward_stat
                     /\ ~PunishmentSet_contains(punishment, v.staking_address)]_vars

\* an end_block has removed the row of validator 1, the one vacant slot
C13_WitnessRemoved ==
    /\ ret.op = "end_block"
    /\ ret.ok
    /\ ~ValidatorSet_has(validator, 1)
    /\ validator.heap.free # <<>>

(***************************************************************************)
(* Claims on unjail and on joining again.                                  *)
(***************************************************************************)
\* C14: unjail of a punished staking address succeeds if and only if
\* block_time >= jail_time + JAIL_DURATION; on success exactly that punishment
\* row is removed and the validator rows (their inactive_time included) are
\* unchanged; on failure (too early, or no punishment row) it returns false
\* and the whole state is unchanged.
C14_Unjail ==
    [][ret'.op = "unjail" =>
          LET sa == ret'.addr
              due == /\ PunishmentSet_contains(punishment, sa)
                     /\ now >= PunishmentRow(punishment, sa).jail_time + JAIL_DURATION
          IN /\ ret'.ok = due
             /\ UNCHANGED <<validator, validator_snapshot, reward_stat,
                            last_reward_distributio_time, rewards_pool, aborted>>
             /\ IF due
                THEN /\ DOMAIN punishment'.idx_staking_address =
                            (DOMAIN punishment.idx_staking_address) \ {sa}
                     /\ \A other \in DOMAIN punishment'.idx_staking_address :
                            PunishmentRow(punishment', other) =
                                PunishmentRow(punishment, other)
                     /\ ~Occupied(punishment'.heap.entries[
                                      punishment.idx_staking_address[sa]])
                ELSE UNCHANGED punishment]_vars

\* an unjail of validator 1 has succeeded: its validator row is inactive and
\* the punishment row of validator 11 stays
C14_Witness ==
    /\ ret.op = "unjail"
    /\ ret.addr = 1
    /\ ret.ok
    /\ ~PunishmentSet_contains(punishment, 1)
    /\ PunishmentSet_contains(punishment, 11)
    /\ ValidatorSet_has(validator, 1)
    /\ validator.heap.entries[validator.idx_staking_address[1]].inactive_time # None

\* the row of a staking address may join again
MayRejoin(st_validator, st_punishment, sa) ==
    /\ BondedOf(st_validator, sa) >= MINIMAL_REQUIRED_STAKING
    /\ ~PunishmentSet_contains(st_punishment, sa)

\* what a join_node that returns true leaves of a row that was there: the row
\* with the new validator address and council node info, every other row, the
\* index by staking address and the sort index as they were
RowRejoined(sa, va, info) ==
    LET oid == validator.idx_staking_address[sa]
    IN /\ validator'.heap =
              [validator.heap EXCEPT !.entries[oid].validator_address = va,
                                     !.entries[oid].council_node_info = info]
       /\ validator'.idx_staking_address = validator.idx_staking_address
       /\ validator'.idx_sort_key = validator.idx_sort_key
       /\ validator'.idx_validator_address[va] = oid
       /\ UNCHANGED <<validator_snapshot, reward_stat, punishment,
                      last_reward_distributio_time, rewards_pool, aborted>>

AllUnchanged ==
    UNCHANGED <<validator, validator_snapshot, reward_stat, punishment,
                last_reward_distributio_time, rewards_pool, aborted>>

\* C15 as stated: join_node for a staking address that has a validator row
\* returns true if and only if the bonded_coins of the row are >=
\* MINIMAL_REQUIRED_STAKING and the address has no row in PunishmentSet; on
\* success the row keeps its staking address and bonded amount and takes the
\* new validator address and council node info; on refusal it returns false
\* and leaves the state unchanged.
C15_RejoinAsStated ==
    [][(ret'.op = "join_node" /\ ValidatorSet_has(validator, ret'.addr)) =>
          IF MayRejoin(validator, punishment, ret'.addr)
          THEN ret'.ok /\ RowRejoined(ret'.addr, ret'.args[2], ret'.args[3])
          ELSE ~ret'.ok /\ AllUnchanged]_vars

\* C15, amended: the same, for a join_node whose bonded_coins argument equals
\* the bonded amount of the row; with another bonded_coins argument a
\* join_node for a row that may join again panics (its assert_eq! fails) and
\* a join_node for a row that may not returns false and changes nothing.
C15_Rejoin ==
    [][(ret'.op = "join_node" /\ ValidatorSet_has(validator, ret'.addr)) =>
          IF MayRejoin(validator, punishment, ret'.addr)
          THEN IF ret'.args[1] = BondedOf(validator, ret'.addr)
               THEN ret'.ok /\ RowRejoined(ret'.addr, ret'.args[2], ret'.args[3])
               ELSE aborted'
          ELSE ~ret'.ok /\ AllUnchanged]_vars

\* validator 1 has joined again under another validator address: its row
\* carries the validator address of the call and the index by validator
\* address still has its former address
C15_Witness ==
    /\ ret.op = "join_node"
    /\ ret.addr = 1
    /\ ret.ok
    /\ ValidatorSet_has(validator, 1)
    /\ validator.heap.entries[validator.idx_staking_address[1]].validator_address
           = ret.args[2]
    /\ \E va \in DynVAddrs \ {ret.args[2]} :
          /\ va \in DOMAIN validator.idx_validator_address
          /\ validator.idx_validator_address[va] = validator.idx_staking_address[1]

\* C16: a jailed validator cannot get back in early: the begin_block at time t0
\* that jails a validator gives it a punishment row of jail_time t0, and from
\* then until a time t >= t0 + JAIL_DURATION the row and the validator row
\* stay, every unjail for it fails and every join_node for its staking address
\* returns false, in every interleaving of begin_block, end_block, unjail and
\* join_node.
C16_NoEarlyReturn ==
    [][/\ \A sa \in ret'.jailed :
             (ret'.op = "begin_block" /\ ~PunishmentSet_contains(punishment, sa)) =>
                 /\ PunishmentSet_contains(punishment', sa)
                 /\ PunishmentRow(punishment', sa).jail_time = now'
       /\ \A sa \in DOMAIN punishment.idx_staking_address :
             (/\ ValidatorSet_has(validator, sa)
              /\ now' < PunishmentRow(punishment, sa).jail_time + JAIL_DURATION) =>
                 /\ PunishmentSet_contains(punishment', sa)
                 /\ PunishmentRow(punishment', sa).jail_time =
                        PunishmentRow(punishment, sa).jail_time
                 /\ ValidatorSet_has(validator', sa)
                 /\ (ret'.op \in {"unjail", "join_node"} /\ ret'.addr = sa) =>
                        ~ret'.ok]_vars

\* two blocks after the one that jailed it, validator 1 is still in jail and
\* its join_node was refused
C16_Witness ==
    /\ ret.op = "join_node"
    /\ ret.addr = 1
    /\ ~ret.ok
    /\ ValidatorSet_has(validator, 1)
    /\ PunishmentSet_contains(punishment, 1)
    /\ PunishmentRow(punishment, 1).jail_time + 2 * TimeStep <= now
    /\ now < PunishmentRow(punishment, 1).jail_time + JAIL_DURATION


(***************************************************************************)
(* Claims on the powers reported to consensus                              *)
(***************************************************************************)
RowOf(vs, sa) == vs.heap.entries[vs.idx_staking_address[sa]]

\* the last step lowered the bond of sa below the minimal stake, and before it
\* nothing was pending: with some bond c of at least the minimal stake in the
\* place of the lowered one, the snapshot is the one end_block computes and
\* every active validator has the minimal stake and no punishment
LoweredAndSettled(sa) ==
    /\ ret.op = "set_bonded_coin"
    /\ ret.ok
    /\ ret.addr = sa
    /\ ret.args[1] < MINIMAL_REQUIRED_STAKING
    /\ is_active(RowOf(validator, sa))
    /\ RowOf(validator, sa).validator_address \in DOMAIN validator_snapshot
    /\ \A oid \in ActiveOids(validator) :
          LET v == validator.heap.entries[oid]
          IN /\ ~PunishmentSet_contains(punishment, v.staking_address)
             /\ v.staking_address # sa => v.bonded_coins >= MINIMAL_REQUIRED_STAKING
    /\ \E c \in Coins :
          /\ c >= MINIMAL_REQUIRED_STAKING
          /\ LET before == ValidatorSet_set_bonded_coin(validator, sa, c)
             IN \E g \in Garbage(before) : new_snapshot(before, g) = validator_snapshot

\* C17: when the bond of a validator of the snapshot is lowered below
\* MINIMAL_REQUIRED_STAKING and nothing else changes, the next end_block sets
\* its inactive_time to the block time and returns exactly one update, of its
\* validator address with power 0.  The table has at most MAX_VALIDATORS
\* active validators, so that no validator waits for the freed place.
C17_LowStake ==
    [][\A sa \in DOMAIN validator.idx_staking_address :
          (/\ LoweredAndSettled(sa)
           /\ Cardinality(ActiveOids(validator)) <= MAX_VALIDATORS
           /\ ret'.op = "end_block"
           /\ ret'.ok) =>
              /\ ValidatorSet_has(validator', sa)
              /\ RowOf(validator', sa).inactive_time = now
              /\ ret'.updates = <<<<RowOf(validator, sa).validator_address, 0>>>>]_vars

\* the row a power is reported for: an active row of that validator address
\* with that voting power and no punishment
ReportedRow(st_validator, st_punishment, va, power) ==
    \E oid \in ActiveOids(st_validator) :
        LET v == st_validator.heap.entries[oid]
        IN /\ v.validator_address = va
           /\ voting_power(v) = power
           /\ ~PunishmentSet_contains(st_punishment, v.staking_address)

RECURSIVE LastWritten(_, _, _)
LastWritten(stakings, v, address) ==
    IF v < 0 THEN NoStaking
    ELSE IF address \in DOMAIN stakings[v + 1] THEN stakings[v + 1][address]
    ELSE LastWritten(stakings, v - 1, address)

\* C19: versioned read: whatever batches were committed, one per version,
\* StakingGetter at a committed version v returns for each address the last
\* account written to it at a version of at most v, or nothing if there is
\* none; this holds after every later commit too, so that an overwrite changes
\* what is read at its version and not what is read at an earlier one.
C19_VersionedRead ==
    /\ \A v \in 0..(app.version - 1), address \in StoreAddrs :
          LET r == StakingGetter_get(app.storage, v, address)
          IN /\ ~r.panicked
             /\ r.value = LastWritten(log.stakings, v, address)
    /\ (ret.op = "get" /\ ret.args[1] < app.version) =>
          /\ ret.ok
          /\ log.got = LastWritten(log.stakings, ret.args[1], ret.addr)

\* the account of address 1 was written at version 0 and overwritten at
\* version 1, and the read at version 0 gave the account first written
C19_Witness ==
    /\ ret.op = "get"
    /\ ret.ok
    /\ ret.addr = 1
    /\ ret.args[1] = 0
    /\ app.version >= 2
    /\ 1 \in DOMAIN log.stakings[1]
    /\ 1 \in DOMAIN log.stakings[2]
    /\ log.stakings[1][1].nonce = 0
    /\ log.stakings[2][1].nonce = 1
    /\ log.got = [address |-> 1, nonce |-> 0]

\* C20: proof completeness: for every key and every committed version v,
\* get_with_proof(key, v) returns the value stored for the key at v with a
\* proof that verifies against the root hash the commit of version v returned:
\* of the inclusion of the value when the key was written at or before v, of
\* the exclusion of the key (value None) when it was not.
C20_ProofCompleteness ==
    /\ \A v \in 0..(app.version - 1), address \in StoreKeys :
          LET key == to_stake_key(address)
              r == get_with_proof(app.storage, key, v)
              last == LastWritten(log.stakings, v, address)
          IN /\ r.ok
             /\ r.value = IF last = NoStaking THEN NoBlob ELSE StakedState_encode(last)
             /\ verify(r.proof, log.root_hashes[v + 1], key, r.value)
    /\ ret.op = "check_proof" => ret.ok

\* the exclusion of address 2 was proved at version 0, where the tree holds
\* the account of address 1, after address 2 was written at version 1
C20_Witness ==
    /\ ret.op = "check_proof"
    /\ ret.ok
    /\ ret.addr = 2
    /\ ret.args[1] = 0
    /\ log.got = NoStaking
    /\ app.version >= 2
    /\ DOMAIN log.stakings[1] = {1}
    /\ 2 \in DOMAIN log.stakings[2]


\* the versions of the nodes a store holds
NodeVersions(storage) == {NodeKey_decode(k[2])[1] : k \in {x \in DOMAIN storage : x[1] = COL_TRIE_NODE}}

C22_StaleIndexCodec ==
    /\ call.fn = "decode_stale_node_index" => call.out = call.from
    /\ call.fn = "encode_stale_node_index" =>
          LET vi == call.in[1].stale_since_version
              vj == call.in[2].stale_since_version
              c == bytes_cmp(call.out[1], call.out[2])
          IN /\ vi < vj => c = -1
             /\ vi > vj => c = 1
             /\ c = 0 => call.in[1] = call.in[2]

C22_Witness ==
    /\ call.fn = "decode_stale_node_index"
    /\ call.from[1].stale_since_version = 256
    /\ call.from[2].stale_since_version = 255
    /\ call.from[1].node_key = <<0, <<>>>>
    /\ call.from[2].node_key = <<256, <<0, 1>>>>
    /\ bytes_cmp(call.in[1], call.in[2]) = 1
    /\ call.out = call.from

StaleEntries(storage) ==
    {decode_stale_node_index(k[2]) : k \in {x \in DOMAIN storage : x[1] = COL_TRIE_STALED}}

\* C23: collect_stale_node_indices of a watermark returns exactly the stale
\* indices of the store whose stale_since_version is at most the watermark.
C23_CollectUpToWatermark ==
    ret.op = "collect_stale" =>
        {call.out[i] : i \in 1..Len(call.out)}
            = {e \in StaleEntries(app.storage) : e.stale_since_version <= call.in}

\* the greatest watermark pruned so far
MaxPruned == IF log.pruned = {} THEN None
             ELSE CHOOSE w \in log.pruned : \A x \in log.pruned : x <= w

\* C24: after the stale indices collected for a watermark are pruned with
\* their nodes, the read with proof of every key at every committed version
\* above the watermark succeeds, returns the value last written and verifies
\* against the root hash of the version; and a node recorded as stale since
\* a version is not part of the tree of that version or of a later one.
C24_StaleGcSafety ==
    /\ \A version \in 0..(app.version - 1), address \in StoreKeys :
          version > MaxPruned =>
              LET key == to_stake_key(address)
                  r == get_with_proof(app.storage, key, version)
                  last == LastWritten(log.stakings, version, address)
              IN /\ r.ok
                 /\ r.value = (IF last = NoStaking THEN NoBlob
                               ELSE StakedState_encode(last))
                 /\ verify(r.proof, log.root_hashes[version + 1], key, r.value)
    /\ \A e \in StaleEntries(app.storage) :
          \A version \in e.stale_since_version..(app.version - 1) :
              e.node_key \notin TreeNodes(app.storage, <<version, <<>>>>)

C24_Witness ==
    /\ ret.op = "prune"
    /\ call.in = 1
    /\ Len(call.out) > 0
    /\ app.version = 3
    /\ StaleEntries(app.storage) # {}
    /\ ~get_with_proof(app.storage, to_stake_key(1), 0).ok
    /\ get_with_proof(app.storage, to_stake_key(1), 2).ok

\* the node keys stored
StoredNodes(storage) ==
    {NodeKey_decode(k[2]) : k \in {x \in DOMAIN storage : x[1] = COL_TRIE_NODE}}

\* of each version that has a node in the storage, the storage has the root,
\* every node of the tree of the version, and no other node of the version
WholeVersions(storage) ==
    \A version \in NodeVersions(storage) :
        LET tree == TreeNodes(storage, <<version, <<>>>>)
        IN /\ tree \subseteq StoredNodes(storage)
           /\ {nk \in StoredNodes(storage) : nk[1] = version} \subseteq tree

\* C25: commit is all or nothing: flush_stakings leaves the committed store
\* as it is, and so does every step but the one batch of flush_kvdb, which
\* writes the whole write buffer at once; when the process stops before the
\* batch the store has the versions committed before and nothing of the
\* version under way, and at every moment the store holds whole versions
\* only.
C25_AllOrNothing ==
    [][/\ ret'.op # "flush_kvdb" => app'.storage = app.storage
       /\ ret'.op = "flush_kvdb" =>
             /\ app.kv_buffer # EmptyMap
             /\ app'.storage = BufferStore_view(app.storage, app.kv_buffer)
             /\ NodeVersions(app'.storage) = 0..app.version
       /\ (ret'.op = "stop" /\ log.pc # "version") =>
             NodeVersions(app'.storage) = 0..(app.version - 1)
       /\ WholeVersions(app'.storage)]_vars

C25_Witness ==
    /\ ret.op = "stop"
    /\ log.pc = "flush_kvdb"
    /\ app.version = 1
    /\ Len(log.root_hashes) = 1
    /\ NodeVersions(app.storage) = {0}
    /\ \E k \in DOMAIN app.kv_buffer :
          k[1] = COL_TRIE_NODE /\ NodeKey_decode(k[2])[1] = 1

\* how often an item occurs in a list
Occurrences(seq, x) == Cardinality({i \in 1..Len(seq) : seq[i] = x})
SameCollection(a, b) ==
    /\ Len(a) = Len(b)
    /\ \A i \in 1..Len(a) : Occurrences(a, a[i]) = Occurrences(b, a[i])
\* the powers a list gives to a public key, in the order of the list
PowersOfKey(seq, key) ==
    LET HasKey(v) == v.pub_key = key
        vs == SelectSeq(seq, HasKey)
    IN [i \in 1..Len(vs) |-> vs[i].power]
DistinctKeys(seq) == \A i, j \in 1..Len(seq) : seq[i].pub_key = seq[j].pub_key => i = j

\* C27 as stated: check_validators succeeds exactly when the (public key,
\* power) pairs of the council nodes are the same collection as the
\* validators of the request, in whatever order either side lists them, and
\* then the ValidatorState has one initial validator per council node.
C27_SameCollection ==
    call.fn = "check_validators" =>
        LET derived == derived_validators(call.in[1], call.in[3])
        IN /\ call.out.ok <=> SameCollection(derived, call.in[2])
           /\ call.out.ok =>
                 DOMAIN call.out.validator_state
                     = {call.in[1][i][1] : i \in 1..Len(call.in[1])}

\* C27 amended: check_validators succeeds exactly when the two sides have
\* as many validators and give every public key the same powers in the same
\* order; when no public key occurs twice on the side of the council nodes
\* this is exactly when the pairs are the same collection, in whatever order
\* either side lists them; on success the ValidatorState has one initial
\* validator per council node, with the power of its distribution.
C27_SameCollectionPerKey ==
    call.fn = "check_validators" =>
        LET nodes == call.in[1]
            derived == derived_validators(nodes, call.in[3])
        IN /\ call.out.ok <=>
                 /\ Len(derived) = Len(call.in[2])
                 /\ \A key \in ConsensusKeys \cup {NoKey} :
                       PowersOfKey(derived, key) = PowersOfKey(call.in[2], key)
           /\ DistinctKeys(derived) =>
                 (call.out.ok <=> SameCollection(derived, call.in[2]))
           /\ call.out.ok =>
                 /\ DOMAIN call.out.validator_state
                       = {nodes[i][1] : i \in 1..Len(nodes)}
                 /\ Cardinality(DOMAIN call.out.validator_state) = Len(nodes)
                 /\ \A i \in 1..Len(nodes) :
                       /\ call.out.validator_state[nodes[i][1]].council_node = nodes[i][2]
                       /\ call.out.validator_state[nodes[i][1]].power = derived[i].power

C27_Witness ==
    /\ call.fn = "check_validators"
    /\ call.out.ok
    /\ Len(call.in[1]) = 2
    /\ call.in[1][1][1] = 2
    /\ derived_validators(call.in[1], call.in[3]) # call.in[2]
    /\ DistinctKeys(call.in[2])
    /\ Cardinality(DOMAIN call.out.validator_state) = 2

\* C28: at init_chain each council node becomes a validator whose stake is
\* the bonded amount of its genesis staking account, and each candidate
\* returned carries the power floor(bonded / base unit) of the account of
\* its node.
C28_GenesisPower ==
    (call.fn = "init_chain" /\ call.out.ok) =>
        LET accounts == call.in[1]
            nodes == call.in[2]
            e == call.out.validators.validators.entries
        IN /\ \A i \in 1..Len(nodes) :
                 \E id \in DOMAIN e :
                     /\ e[id].staking_address = nodes[i][1]
                     /\ e[id].bonded = accounts[nodes[i][1]].bonded
           /\ \A c \in Range(call.out.candidates) :
                 \E i \in 1..Len(nodes) :
                     /\ nodes[i][2].consensus_pubkey = c[1]
                     /\ c[2] = accounts[nodes[i][1]].bonded \div BaseUnit

\* the transactions of a list of sealed logs that the view key may view
RECURSIVE AllowedTxs(_, _, _)
AllowedTxs(sealed_logs, view_key, check_allowed_views) ==
    IF sealed_logs = <<>> THEN <<>>
    ELSE LET otx == TxWithOutputs_decode(sealed_logs[1].decrypt_txt)
             rest == AllowedTxs(Tail(sealed_logs), view_key, check_allowed_views)
         IN IF \/ ~check_allowed_views
               \/ /\ view_key # NoViewKey
                  /\ \E i \in 1..Len(otx.allowed_view) : otx.allowed_view[i] = view_key
            THEN <<otx>> \o rest
            ELSE rest

\* C30: check_unseal is all or nothing: it returns None when any sealed log
\* does not parse, does not unseal, carries another transaction id than the
\* one expected at its position, or decodes to something else than a
\* Transfer or a StakeWithdraw; a list it returns holds the transaction of
\* every sealed log in order when check_allowed_views is false, and exactly
\* those whose allowed_view has the view key when it is true.
C30_AllOrNothing ==
    call.fn = "check_unseal" =>
        LET view_key == call.in[1]
            check_allowed_views == call.in[2]
            txids == call.in[3]
            sealed_logs == call.in[4]
            Bad(i) == \/ ~sealed_logs[i].parses
                      \/ ~sealed_logs[i].unseals
                      \/ i <= Len(txids) /\ sealed_logs[i].additional_txt # txids[i]
                      \/ ~TxWithOutputs_decode(sealed_logs[i].decrypt_txt).ok
        IN /\ (\E i \in 1..Len(sealed_logs) : Bad(i)) => ~call.out.some
           /\ call.out.some =>
                 call.out.txs = AllowedTxs(sealed_logs, view_key, check_allowed_views)

\* the validators of a set in the order of sorted_by_power
ValidatorsByPower(vs) ==
    LET sorted == sorted_by_power(vs)
    IN [i \in 1..Len(sorted) |-> <<sorted[i][1], vs.validators.entries[sorted[i][2]]>>]

\* C29: two ValidatorSets that hold the same validators with the same bonded
\* amounts and jailed flags, reached by different calls of insert,
\* set_bonded and set_jailed, give the same sequence from sorted_by_power and
\* the same candidates, by power from the highest and by staking address
\* among equal powers.
C29_ContentDerivedOrder ==
    (/\ call.fn = "validator_sets"
     /\ ~call.out[1].panicked
     /\ ~call.out[2].panicked
     /\ Range(call.out[1].set.validators.entries)
           = Range(call.out[2].set.validators.entries)) =>
        LET vs1 == call.out[1].set
            vs2 == call.out[2].set
            seq == ValidatorsByPower(vs1)
        IN /\ seq = ValidatorsByPower(vs2)
           /\ \A min_stake \in MinStakes, max_count \in MaxCounts :
                 candidates(vs1, min_stake, max_count)
                     = candidates(vs2, min_stake, max_count)
           /\ \A i, j \in 1..Len(seq) :
                 i < j => \/ seq[i][1] > seq[j][1]
                          \/ /\ seq[i][1] = seq[j][1]
                             /\ seq[i][2].staking_address < seq[j][2].staking_address

\* C26: InitChain returns only when the chain id stored is that of the
\* request, the genesis app hash computed from the empty transaction root,
\* the account root, the rewards pool and the network parameters is the one
\* declared, and the council nodes agree with the validators of the request;
\* when it panics last_state is still None and no ChainNodeState is
\* persisted; when it returns last_state is the genesis state at the genesis
\* height, it is persisted, and uncommitted_account_root_hash is its account
\* root.
C26_InitChain ==
    call.fn = "init_chain_handler" =>
        LET self == call.in[1]
            req == call.in[2]
            conf == req.app_state.conf
            after == call.out.self
            g == validate_config_get_genesis(conf, req.time)
            root == compute_accounts_root(g.accounts)
            derived == derived_validators(g.nodes, conf.distribution)
        IN /\ ~call.out.panicked =>
                 /\ self.storage.chain_id = req.chain_id
                 /\ self.genesis_app_hash
                       = compute_app_hash(MerkleTree_empty, root, conf.rewards_pool,
                                          conf.network_params)
                 /\ SameCollection(derived, req.validators)
                 /\ after.last_state.last_block_height = BlockHeight_genesis
                 /\ after.last_state.last_apphash = self.genesis_app_hash
                 /\ after.last_state.top_level.account_root = root
                 /\ DOMAIN after.last_state.validators
                       = {g.nodes[i][1] : i \in 1..Len(g.nodes)}
                 /\ after.uncommitted_account_root_hash
                       = after.last_state.top_level.account_root
                 /\ after.storage.persisted["last-app-state"] = after.last_state
           /\ call.out.panicked =>
                 /\ after.last_state = NoState
                 /\ "last-app-state" \notin DOMAIN after.storage.persisted
                 /\ after.storage.persisted = self.storage.persisted

C26_Witness ==
    /\ call.fn = "init_chain_handler"
    /\ ~call.out.panicked
    /\ Len(call.in[2].validators) = 2
    /\ call.in[2].consensus_params # None
    /\ call.out.self.last_state.last_block_height = BlockHeight_genesis
    /\ DOMAIN call.out.self.storage.persisted = {"consensus-params", "last-app-state"}

\* C31: diff_candidates(new, old) emits an update only for a validator that
\* was added, removed (with power zero) or whose power changed: a candidate
\* that is in both lists with the same power is not emitted, and
\* diff_candidates(x, x) is empty.
C31_OnlyChanges ==
    call.fn = "diff_candidates" =>
        LET new == call.in[1]
            old == call.in[2]
            InList(l, c) == \E i \in 1..Len(l) : l[i] = c
        IN /\ \A u \in 1..Len(call.out) : ~InList(old, call.out[u])
           /\ new = old => call.out = <<>>

\* C32: the block lifecycle order is enforced by the driver: init_chain
\* succeeds at most once (a second call panics and leaves the state as it
\* is), begin_block before init_chain panics, and in every run that does not
\* panic a committed ChainState exists before any block is begun.
C32_LifecycleOrder ==
    [][/\ (call'.fn = "init_chain" /\ driver.state # NoChainState)
              => (driver'.panicked /\ driver'.state = driver.state)
       /\ (call'.fn = "begin_block" /\ driver.state = NoChainState)
              => (driver'.panicked /\ driver'.tx_deliver_state = NoDeliverState)
       /\ driver'.tx_deliver_state # NoDeliverState => driver'.state # NoChainState
       /\ (driver.state # NoChainState /\ ~driver'.panicked)
              => driver'.state = driver.state]_vars

C32_Witness ==
    /\ call.fn = "begin_block"
    /\ ~driver.panicked
    /\ driver.state # NoChainState
    /\ driver.tx_deliver_state # NoDeliverState
    /\ driver.state.validators.validators.entries # EmptyMap

C34_NoDivisionByZero ==
    (ret.op = "begin_block" /\ last_reward_distributio_time = now) => ~aborted

\* C35: validator addresses stay unique: after any sequence of join_node
\* calls, first joins and re-joins, no two rows of the validator table have
\* the same validator_address.
C35_ValidatorAddressUnique ==
    \A o1, o2 \in OccupiedOids(validator) :
        validator.heap.entries[o1].validator_address
            = validator.heap.entries[o2].validator_address => o1 = o2

\* C36: slash precedes release: with non-decreasing block times and the
\* begin_block of a block before any unjail of the block, a punishment row
\* that a successful unjail removes already has its slash_amount set; no
\* validator leaves jail with its slash pending.
C36_SlashPrecedesRelease ==
    [][(ret'.op = "unjail" /\ ret'.ok) =>
          /\ PunishmentSet_contains(punishment, ret'.addr)
          /\ PunishmentRow(punishment, ret'.addr).slash_amount # None
          /\ ~PunishmentSet_contains(punishment', ret'.addr)]_vars

C36_Witness ==
    /\ ret.op = "unjail"
    /\ ret.ok
    /\ ret.addr = 11
    /\ ~PunishmentSet_contains(punishment, 11)
    /\ PunishmentSet_contains(punishment, 1)
    /\ PunishmentRow(punishment, 1).slash_amount = None

\* C37: the reward accrual map only ever holds staking addresses of rows that
\* are in the validator table: an entry is added only for the row the
\* proposer is found at by its validator address, and cleanup never removes
\* a validator that has an accrual entry.
C37_AccrualOfRows ==
    [][/\ DOMAIN reward_stat' \subseteq
              {validator'.heap.entries[oid].staking_address :
                  oid \in OccupiedOids(validator')}
       /\ ret'.op = "begin_block" =>
              \A sa \in (DOMAIN reward_stat') \ (DOMAIN reward_stat) :
                  /\ ret'.args[1] \in DOMAIN validator.idx_validator_address
                  /\ sa = validator.heap.entries[
                              validator.idx_validator_address[ret'.args[1]]].staking_address
       /\ (ret'.op = "end_block" /\ ret'.ok) =>
              \A sa \in DOMAIN reward_stat : ValidatorSet_has(validator', sa)]_vars

C37_Witness ==
    /\ ret.op = "end_block"
    /\ ret.ok
    /\ 1 \in DOMAIN reward_stat
    /\ ValidatorSet_has(validator, 1)
    /\ validator.heap.entries[validator.idx_staking_address[1]].inactive_time # None
    /\ now > MAX_EVIDENCE_AGE
               + validator.heap.entries[validator.idx_staking_address[1]].inactive_time
    /\ ~PunishmentSet_contains(punishment, 1)

\* C38: a validator that has joined again is eligible again: after a
\* join_node that returns true, also the re-join of a validator that was
\* jailed and unjailed, the row of the staking address is active
\* (inactive_time = None), so that cleanup does not remove it and the next
\* end_block can report it.
C38_RejoinedIsActive ==
    (ret.op = "join_node" /\ ret.ok /\ ~aborted) =>
        /\ ValidatorSet_has(validator, ret.addr)
        /\ is_active(validator.heap.entries[validator.idx_staking_address[ret.addr]])

C40_LengthsChecked ==
    (/\ call.fn = "check_unseal"
     /\ Len(call.in[3]) # Len(call.in[4])) => ~call.out.some
====
